---- MODULE Spec2Model ----
(***************************************************************************)
(* Aggregation of per-split prediction results into experiment-level       *)
(* statistics, after wndcharm/FeatureSpacePredictionExperiment.py:         *)
(*   FeatureSpacePredictionExperiment.GenerateStats       (base)           *)
(*   FeatureSpaceClassificationExperiment.GenerateStats   (classification) *)
(*                                                                         *)
(* Python floats are modelled as exact rationals [n, d]; a float division  *)
(* by zero raises ZeroDivisionError, which ends the call where it happens  *)
(* and leaves the fields assigned so far as they are.                      *)
(***************************************************************************)
EXTENDS Integers, Sequences, FiniteSets, TLC

\* Bounds of the model.
MaxBatches == 3        \* batches appended to a classification experiment
MaxSamples == 3        \* sample predictions over all batches of an experiment
MaxWeightBatches == 3  \* batches appended in the feature-weight specification
MaxValueBatches == 3   \* batches appended in the value-list specification
MaxClassifications == 6  \* cap of num_classifications, which the base
                         \* GenerateStats adds to at every call

(***************************************************************************)
(* Python values.                                                          *)
(***************************************************************************)
\* None, and a field that may be None: Some(v) holds the value v.
None == [none |-> TRUE]
Some(v) == [val |-> v]

\* An empty dict.
EmptyDict == [k \in {} |-> 0]

RECURSIVE GCD(_, _)
GCD(a, b) == IF b = 0 THEN a ELSE GCD(b, a % b)

\* A float, kept exact: n / d with d > 0, in lowest terms.
Rat(n, d) ==
    LET g == GCD(IF n < 0 THEN -n ELSE n, d)
    IN  IF n = 0 THEN [n |-> 0, d |-> 1] ELSE [n |-> n \div g, d |-> d \div g]
RatOfInt(i) == Rat(i, 1)
RatAdd(x, y) == Rat(x.n * y.d + y.n * x.d, x.d * y.d)
RatLt(x, y) == x.n * y.d < y.n * x.d
RatLe(x, y) == x.n * y.d <= y.n * x.d
RatIsZero(x) == x.n = 0
\* x / y for y # 0 (the callers raise ZeroDivisionError before dividing by 0).
RatDiv(x, y) ==
    IF y.n < 0 THEN Rat(-(x.n * y.d), x.d * (-y.n)) ELSE Rat(x.n * y.d, x.d * y.n)

Range(s) == {s[i] : i \in 1..Len(s)}

\* The order of Python's string comparison on the class names of the model.
NameRank(c) == IF c = "A" THEN 1 ELSE 2

\* sorted( names ): insertion sort by string order.
RECURSIVE Insert(_, _)
Insert(c, s) ==
    IF s = <<>> THEN <<c>>
    ELSE IF NameRank(c) <= NameRank(Head(s)) THEN <<c>> \o s
    ELSE <<Head(s)>> \o Insert(c, Tail(s))
RECURSIVE Sorted(_)
Sorted(names) == IF names = <<>> THEN <<>> ELSE Insert(Head(names), Sorted(Tail(names)))

(***************************************************************************)
(* Inputs: class-name lists, sample predictions.                           *)
(***************************************************************************)
\* Class labels a sample can carry.
ClassNames == {"A", "B"}
\* The class_names lists (ordered, distinct names) of the test set and of the
\* training set of an experiment: the same list, the same names in another
\* order, a test set and a training set that lack a class.
ClassLists ==
    {[test |-> <<"A", "B">>, training |-> <<"A", "B">>],
     [test |-> <<"A", "B">>, training |-> <<"B", "A">>],
     [test |-> <<"A">>, training |-> <<"A", "B">>],
     [test |-> <<"A", "B">>, training |-> <<"A">>]}

\* marginal_probabilities of a sample, aligned with the training set's class
\* names; the whole mass is on the predicted class.
MarginalProbabilities(names, pred) ==
    [i \in 1..Len(names) |-> IF names[i] = pred THEN 1 ELSE 0]

\* A SingleSampleClassification.
SampleClassification(gt, pred, names) ==
    [ground_truth_class_name |-> gt,
     predicted_class_name |-> pred,
     marginal_probabilities |-> MarginalProbabilities(names, pred)]

IndexOf(names, c) == CHOOSE i \in 1..Len(names) : names[i] = c

(***************************************************************************)
(* Dictionaries of dictionaries (defaultdict): matrix[ row ][ col ].       *)
(***************************************************************************)
\* matrix[ row ], which on a defaultdict is an empty row when the row is missing.
GetRow(matrix, row) == IF row \in DOMAIN matrix THEN matrix[row] ELSE EmptyDict

\* matrix[ row ][ col ] on a defaultdict( lambda: defaultdict( int ) ).
GetCount(matrix, row, col) ==
    LET r == GetRow(matrix, row) IN IF col \in DOMAIN r THEN r[col] ELSE 0

\* matrix[ row ][ col ] on a defaultdict( lambda: defaultdict( float ) ).
GetFloat(matrix, row, col) ==
    LET r == GetRow(matrix, row) IN IF col \in DOMAIN r THEN r[col] ELSE RatOfInt(0)

\* matrix[ row ][ col ] = v, creating the row and the cell when missing.
SetCell(matrix, row, col, v) ==
    LET r == GetRow(matrix, row)
        r2 == [c \in DOMAIN r \cup {col} |-> IF c = col THEN v ELSE r[c]]
    IN  [g \in DOMAIN matrix \cup {row} |-> IF g = row THEN r2 ELSE matrix[g]]

\* d[ key ] += n on a defaultdict( int ).
AddKey(d, key, n) ==
    [k \in DOMAIN d \cup {key} |->
        IF k = key THEN (IF key \in DOMAIN d THEN d[key] ELSE 0) + n ELSE d[k]]

\* The cells a matrix holds, as (row, col) pairs.
Cells(matrix) == {<<g, p>> \in ClassNames \X ClassNames :
                    g \in DOMAIN matrix /\ p \in DOMAIN matrix[g]}

(***************************************************************************)
(* A batch result (one split): a FeatureSpaceClassification or a           *)
(* FeatureSpaceRegression.  A list that is None or empty is <<>>: the      *)
(* aggregation only tests such lists for truth.  generate_stats_calls      *)
(* counts the calls of the batch's own GenerateStats.                      *)
(***************************************************************************)
Batch(class, samples, weights, gt_values, pred_values) ==
    [class |-> class,
     individual_results |-> samples,
     tiled_results |-> <<>>,
     ground_truth_values |-> gt_values,
     predicted_values |-> pred_values,
     tiled_ground_truth_values |-> <<>>,
     tiled_predicted_values |-> <<>>,
     feature_weights |-> weights,
     std_err |-> None,
     classification_accuracy |-> None,
     confusion_matrix |-> EmptyDict,
     average_class_probability_matrix |-> EmptyDict,
     generate_stats_calls |-> 0]

\* len( batch_result )
BatchLen(b) == Len(b.individual_results)

\* The batch's own confusion matrix: the count of its samples per
\* (ground truth, predicted) pair; pairs that never occur have no cell.
RECURSIVE BatchConfusionMatrix(_)
BatchConfusionMatrix(samples) ==
    IF samples = <<>> THEN EmptyDict
    ELSE LET m == BatchConfusionMatrix(Tail(samples))
             g == Head(samples).ground_truth_class_name
             p == Head(samples).predicted_class_name
         IN  SetCell(m, g, p, GetCount(m, g, p) + 1)

RECURSIVE SumMass(_, _, _)
SumMass(samples, g, i) ==
    IF samples = <<>> THEN 0
    ELSE (IF Head(samples).ground_truth_class_name = g
          THEN Head(samples).marginal_probabilities[i] ELSE 0)
         + SumMass(Tail(samples), g, i)

NumWithGroundTruth(samples, g) ==
    Cardinality({i \in 1..Len(samples) : samples[i].ground_truth_class_name = g})

NumCorrect(samples) ==
    Cardinality({i \in 1..Len(samples) :
        samples[i].ground_truth_class_name = samples[i].predicted_class_name})

\* The batch's own average class probability matrix: per ground-truth class
\* of its samples, the mean marginal probability of each training class.
BatchAvgClassProbMatrix(samples, names) ==
    [g \in {samples[i].ground_truth_class_name : i \in 1..Len(samples)} |->
        [p \in Range(names) |->
            Rat(SumMass(samples, g, IndexOf(names, p)), NumWithGroundTruth(samples, g))]]

RECURSIVE SumSquaredResiduals(_, _)
SumSquaredResiduals(gt_values, pred_values) ==
    IF gt_values = <<>> \/ pred_values = <<>> THEN 0
    ELSE (Head(gt_values) - Head(pred_values)) * (Head(gt_values) - Head(pred_values))
         + SumSquaredResiduals(Tail(gt_values), Tail(pred_values))

\* batch_result.GenerateStats(): the batch's own statistics.  A classification
\* batch gets its matrices and its accuracy; a regression batch that has both
\* value lists gets its standard error, kept here as its square, the mean
\* squared residual.
BatchGenerateStats(b, names) ==
    IF b.class = "FeatureSpaceClassification"
    THEN [b EXCEPT
            !.confusion_matrix = BatchConfusionMatrix(b.individual_results),
            !.average_class_probability_matrix =
                BatchAvgClassProbMatrix(b.individual_results, names),
            !.classification_accuracy =
                Some(Rat(NumCorrect(b.individual_results), Len(b.individual_results))),
            !.generate_stats_calls = @ + 1]
    ELSE IF b.ground_truth_values # <<>> /\ b.predicted_values # <<>>
    THEN [b EXCEPT
            !.std_err = Some(Rat(SumSquaredResiduals(b.ground_truth_values,
                                                     b.predicted_values),
                                 Len(b.ground_truth_values))),
            !.generate_stats_calls = @ + 1]
    ELSE [b EXCEPT !.generate_stats_calls = @ + 1]

(***************************************************************************)
(* The experiment object.                                                  *)
(***************************************************************************)
VARIABLES
    test_set,                    \* test_set.class_names
    training_set,                \* training_set.class_names
    individual_results,          \* the batch results, in order
    num_classifications,
    ground_truth_values,
    predicted_values,
    feature_weight_statistics,
    num_correct_classifications,
    classification_accuracy,
    num_classifications_per_class,
    num_correct_classifications_per_class,
    confusion_matrix,
    average_class_probability_matrix,
    similarity_matrix,
    feature_weight_lists_keys,   \* the order in which the last GenerateStats
                                 \* enumerated the dict feature_weight_lists
    call,                        \* the last call made and the exception it raised
    use_error_bars,              \* set by NewShuffleSplit, read by Print
    printed,                     \* the accuracy line of the last Print
    individual_stats,            \* set by PerSampleStatistics
    sorted_images,               \* the order of the last per-sample report
    shuffle,                     \* the frame of a running NewShuffleSplit
    regression,                  \* std_err and the correlation statistics of a
                                 \* regression experiment, and numpy's error mode
    grid                         \* the frame of a FeatureWeightsGridSearch

batchVars == <<test_set, training_set, individual_results>>
baseVars == <<num_classifications, ground_truth_values, predicted_values,
              feature_weight_statistics, feature_weight_lists_keys>>
clsVars == <<num_correct_classifications, classification_accuracy,
             num_classifications_per_class, num_correct_classifications_per_class,
             confusion_matrix, average_class_probability_matrix, similarity_matrix>>
reportVars == <<use_error_bars, printed, individual_stats, sorted_images>>
vars == <<batchVars, baseVars, clsVars, call, reportVars, shuffle, regression, grid>>

Call(op, raised) == [op |-> op, raised |-> raised]

\* The statistics of a regression experiment that has computed none, with
\* numpy's handling of floating-point errors.
NoRegressionStats(np_errors) ==
    [std_err |-> None,
     pearson_coeff |-> None,
     spearman_coeff |-> None,
     spearman_p_value |-> None,
     np_errors |-> np_errors]

\* The fields a new experiment starts with.
ExperimentFields ==
    /\ grid = None
    /\ individual_results = <<>>
    /\ num_classifications = 0
    /\ ground_truth_values = None
    /\ predicted_values = None
    /\ feature_weight_statistics = None
    /\ num_correct_classifications = None
    /\ classification_accuracy = None
    /\ num_classifications_per_class = None
    /\ num_correct_classifications_per_class = None
    /\ confusion_matrix = None
    /\ average_class_probability_matrix = None
    /\ similarity_matrix = None
    /\ feature_weight_lists_keys = <<>>
    /\ call = Call("__init__", "none")
    /\ use_error_bars = None
    /\ printed = None
    /\ individual_stats = None
    /\ sorted_images = None
    /\ shuffle = None

\* A new experiment, numpy warning of floating-point errors as it does by
\* default.
InitFields ==
    /\ ExperimentFields
    /\ regression = NoRegressionStats("warn")

\* FeatureSpaceClassificationExperiment( training_set=..., test_set=... )
Init ==
    /\ \E names \in ClassLists :
          /\ test_set = names.test
          /\ training_set = names.training
    /\ InitFields

(***************************************************************************)
(* FeatureSpacePredictionExperiment.GenerateStats (the base class).        *)
(***************************************************************************)
\* Variant: the batch's own GenerateStats called at every aggregation.
EagerBatchStats(b, names) == BatchGenerateStats(b, names)

\* The batch after the lazy call of its own GenerateStats.
LazyBatchStats(b, names) ==
    IF b.std_err = None /\ b.classification_accuracy = None
    THEN BatchGenerateStats(b, names) ELSE b

\* The per-sample results and the value lists the aggregation reads from a
\* batch: the tiled ones when the batch has tiled results.
ClassificationResults(b) ==
    IF b.tiled_results # <<>> THEN b.tiled_results ELSE b.individual_results
GroundTruthValuesOf(b) ==
    IF b.tiled_results # <<>> THEN b.tiled_ground_truth_values ELSE b.ground_truth_values
PredictedValuesOf(b) ==
    IF b.tiled_results # <<>> THEN b.tiled_predicted_values ELSE b.predicted_values

RECURSIVE SumLen(_)
SumLen(batches) ==
    IF batches = <<>> THEN 0
    ELSE Len(ClassificationResults(Head(batches))) + SumLen(Tail(batches))

\* lists_of_ground_truths: the non-empty lists, in batch order.
RECURSIVE ListsOfGroundTruths(_)
ListsOfGroundTruths(batches) ==
    IF batches = <<>> THEN <<>>
    ELSE (IF GroundTruthValuesOf(Head(batches)) # <<>>
          THEN <<GroundTruthValuesOf(Head(batches))>> ELSE <<>>)
         \o ListsOfGroundTruths(Tail(batches))

RECURSIVE ListsOfPredictedValues(_)
ListsOfPredictedValues(batches) ==
    IF batches = <<>> THEN <<>>
    ELSE (IF PredictedValuesOf(Head(batches)) # <<>>
          THEN <<PredictedValuesOf(Head(batches))>> ELSE <<>>)
         \o ListsOfPredictedValues(Tail(batches))

\* list( chain( *lists ) )
RECURSIVE Chain(_)
Chain(lists) == IF lists = <<>> THEN <<>> ELSE Head(lists) \o Chain(Tail(lists))

\* Variant: the field assigned also when no batch has the list.
AggregatedValuesAlways(lists, old) == Some(Chain(lists))

\* self.ground_truth_values / self.predicted_values after the call.
AggregatedValues(lists, old) == IF lists # <<>> THEN Some(Chain(lists)) ELSE old

\* feature_weight_lists after one batch: each weight of the batch appended to
\* the list of its feature name.  weights: the (name, value) pairs of the batch.
RECURSIVE AppendWeights(_, _)
AppendWeights(lists, weights) ==
    IF weights = <<>> THEN lists
    ELSE LET name == Head(weights).name
             old == IF name \in DOMAIN lists THEN lists[name] ELSE <<>>
             new == [k \in DOMAIN lists \cup {name} |->
                        IF k = name THEN Append(old, Head(weights).value) ELSE lists[k]]
         IN  AppendWeights(new, Tail(weights))

\* feature_weight_lists after all batches; a batch without weights is skipped.
RECURSIVE FeatureWeightLists(_, _)
FeatureWeightLists(lists, batches) ==
    IF batches = <<>> THEN lists
    ELSE FeatureWeightLists(AppendWeights(lists, Head(batches).feature_weights),
                            Tail(batches))

RECURSIVE SumSeq(_)
SumSeq(s) == IF s = <<>> THEN 0 ELSE Head(s) + SumSeq(Tail(s))
RECURSIVE SumSquares(_)
SumSquares(s) == IF s = <<>> THEN 0 ELSE Head(s) * Head(s) + SumSquares(Tail(s))
\* Variant: the first weight of the list for its minimum.
FirstOfSeq(s) == s[1]
\* np.min( fwl ) and np.max( fwl )
MinSeq(s) == CHOOSE x \in Range(s) : \A y \in Range(s) : x <= y
MaxSeq(s) == CHOOSE x \in Range(s) : \A y \in Range(s) : x >= y

\* Variant: np.mean( fwl ), the mean over the batches that have the feature.
MeanWithoutZeros(fwl, num_batches) == Rat(SumSeq(fwl), Len(fwl))

\* np.mean( fwl_w_zeros ): the weights padded with zeros to num_batches entries.
MeanWithZeros(fwl, num_batches) == Rat(SumSeq(fwl), num_batches)

\* The statistic tuple of one feature.  variance is the square of np.std( fwl ).
FeatureWeightStat(fname, fwl, num_batches) ==
    [mean |-> MeanWithZeros(fwl, num_batches),
     count |-> Len(fwl),
     variance |-> Rat(Len(fwl) * SumSquares(fwl) - SumSeq(fwl) * SumSeq(fwl),
                      Len(fwl) * Len(fwl)),
     min |-> MinSeq(fwl),
     max |-> MaxSeq(fwl),
     fname |-> fname]

\* feature_weight_stats: one tuple per key, in the dict's enumeration order.
FeatureWeightStats(lists, keys, num_batches) ==
    [i \in 1..Len(keys) |-> FeatureWeightStat(keys[i], lists[keys[i]], num_batches)]

\* Variant: an unstable sort, the next tuple put before the tuples of equal mean.
RECURSIVE InsertBeforeEqualMean(_, _)
InsertBeforeEqualMean(stat, sorted) ==
    IF sorted = <<>> THEN <<stat>>
    ELSE IF RatLe(Head(sorted).mean, stat.mean) THEN <<stat>> \o sorted
    ELSE <<Head(sorted)>> \o InsertBeforeEqualMean(stat, Tail(sorted))

\* Where sorted( ..., reverse=True ) puts the next tuple: after every tuple
\* whose mean is at least as large (the sort is stable).
RECURSIVE InsertByMean(_, _)
InsertByMean(stat, sorted) ==
    IF sorted = <<>> THEN <<stat>>
    ELSE IF RatLt(Head(sorted).mean, stat.mean) THEN <<stat>> \o sorted
    ELSE <<Head(sorted)>> \o InsertByMean(stat, Tail(sorted))

\* sorted( feature_weight_stats, key=lambda a: a[0], reverse=True )
RECURSIVE SortedByMean(_)
SortedByMean(stats) ==
    IF stats = <<>> THEN <<>>
    ELSE InsertByMean(stats[Len(stats)], SortedByMean(SubSeq(stats, 1, Len(stats) - 1)))

\* The orders in which a Python 2 dict with these keys may enumerate them.
Enumerations(keys) ==
    {s \in [1..Cardinality(keys) -> keys] : \A i, j \in DOMAIN s : i # j => s[i] # s[j]}

\* The batches after the loops of GenerateStats: each has its own statistics.
BatchesWithStats(batches, names) ==
    [i \in 1..Len(batches) |-> LazyBatchStats(batches[i], names)]

\* The fields the base GenerateStats assigns, from the fields as they were;
\* keys is the enumeration order of feature_weight_lists.
BaseStats(batches, keys) ==
    LET lists == FeatureWeightLists(EmptyDict, batches) IN
    [num_classifications |-> num_classifications + SumLen(batches),
     ground_truth_values |->
         AggregatedValues(ListsOfGroundTruths(batches), ground_truth_values),
     predicted_values |->
         AggregatedValues(ListsOfPredictedValues(batches), predicted_values),
     feature_weight_statistics |->
         Some(SortedByMean(FeatureWeightStats(lists, keys, Len(batches))))]

(***************************************************************************)
(* FeatureSpaceClassificationExperiment.GenerateStats.                     *)
(***************************************************************************)
\* The count a batch contributes to a cell: 0 when its row has no such cell.
CellCount(gt_row_dict, pred_class) ==
    IF pred_class \notin DOMAIN gt_row_dict THEN 0 ELSE gt_row_dict[pred_class]

\* The matrices and counters at the start of the loop over the batches.
EmptyStats ==
    [confusion_matrix |-> EmptyDict,
     average_class_probability_matrix |-> EmptyDict,
     num_correct_classifications |-> 0,
     num_classifications_per_class |-> EmptyDict,
     num_correct_classifications_per_class |-> EmptyDict,
     num_classifications |-> 0]

\* Variant: x = count, an assignment in place of the +=.
PlusEqualsOverwrite(x, count) == count

\* x += count
PlusEquals(x, count) == x + count

\* Variant: the cell is only touched for a count other than 0.
UpdateConfusionIfCounted(matrix, gt_class, pred_class, count) ==
    IF count = 0 THEN matrix
    ELSE SetCell(matrix, gt_class, pred_class, GetCount(matrix, gt_class, pred_class) + count)

\* self.confusion_matrix[ gt_class ][ pred_class ] += count, which creates
\* the cell in the defaultdict when it does not exist yet, also for a count of 0.
UpdateConfusion(matrix, gt_class, pred_class, count) ==
    SetCell(matrix, gt_class, pred_class,
            PlusEquals(GetCount(matrix, gt_class, pred_class), count))

\* Variant: every cell counts as correct, the test gt_class == pred_class lost.
AddCorrectAnyCell(st, gt_class, pred_class, count) ==
    [st EXCEPT
        !.num_correct_classifications = @ + count,
        !.num_correct_classifications_per_class = AddKey(@, gt_class, count)]

\* What a correct cell adds to the counters of correct classifications.
AddCorrect(st, gt_class, pred_class, count) ==
    IF gt_class = pred_class
    THEN [st EXCEPT
            !.num_correct_classifications = @ + count,
            !.num_correct_classifications_per_class = AddKey(@, gt_class, count)]
    ELSE st

\* The body of the innermost loop: one cell of one batch.
AddCell(st, b, gt_class, pred_class) ==
    LET count == CellCount(GetRow(b.confusion_matrix, gt_class), pred_class)
        st1 == [st EXCEPT
                  !.confusion_matrix = UpdateConfusion(@, gt_class, pred_class, count),
                  !.num_classifications_per_class = AddKey(@, gt_class, count)]
        st2 == AddCorrect(st1, gt_class, pred_class, count)
    IN  [st2 EXCEPT
           !.average_class_probability_matrix =
               SetCell(@, gt_class, pred_class,
                       RatAdd(GetFloat(@, gt_class, pred_class),
                              GetFloat(b.average_class_probability_matrix,
                                       gt_class, pred_class)))]

\* for pred_class in self.training_set.class_names
RECURSIVE AddRow(_, _, _, _)
AddRow(st, b, gt_class, pred_classes) ==
    IF pred_classes = <<>> THEN st
    ELSE AddRow(AddCell(st, b, gt_class, Head(pred_classes)), b, gt_class,
                Tail(pred_classes))

\* for gt_class in self.test_set.class_names
RECURSIVE AddRows(_, _, _, _)
AddRows(st, b, gt_classes, pred_classes) ==
    IF gt_classes = <<>> THEN st
    ELSE AddRows(AddRow(st, b, Head(gt_classes), pred_classes), b,
                 Tail(gt_classes), pred_classes)

\* One batch: its length and its cells.
AddBatch(st, b, gt_classes, pred_classes) ==
    AddRows([st EXCEPT !.num_classifications = @ + BatchLen(b)], b,
            gt_classes, pred_classes)

\* for batch_result in self.individual_results
RECURSIVE AddBatches(_, _, _, _)
AddBatches(st, batches, gt_classes, pred_classes) ==
    IF batches = <<>> THEN st
    ELSE AddBatches(AddBatch(st, Head(batches), gt_classes, pred_classes),
                    Tail(batches), gt_classes, pred_classes)

\* matrix[ row ][ col ] /= denom
DivideCell(matrix, row, col, denom) ==
    SetCell(matrix, row, col, RatDiv(GetFloat(matrix, row, col), denom))

RECURSIVE DivideRow(_, _, _, _)
DivideRow(matrix, row, cols, denom) ==
    IF cols = <<>> THEN matrix
    ELSE DivideRow(DivideCell(matrix, row, Head(cols), denom), row, Tail(cols), denom)

RECURSIVE DivideRows(_, _, _, _)
DivideRows(matrix, rows, cols, denom) ==
    IF rows = <<>> THEN matrix
    ELSE DivideRows(DivideRow(matrix, Head(rows), cols, denom), Tail(rows), cols, denom)

\* Variant: the division by the number of classifications of all batches.
NumSamples(batches) == SumLen(batches)

\* What each cell of the summed matrix is divided by: len( self ).
NumSplits(batches) == Len(batches)

\* The division of every cell by the number of splits.  With no split the
\* first division raises, after the defaultdict has created the cell it read.
FinalizeAverages(matrix, rows, cols, num_splits) ==
    IF rows = <<>> \/ cols = <<>> THEN [matrix |-> matrix, raised |-> "none"]
    ELSE IF num_splits = 0
    THEN [matrix |-> SetCell(matrix, Head(rows), Head(cols),
                             GetFloat(matrix, Head(rows), Head(cols))),
          raised |-> "ZeroDivisionError"]
    ELSE [matrix |-> DivideRows(matrix, rows, cols, RatOfInt(num_splits)),
          raised |-> "none"]

\* Variant: the comparison of the names as sets.
SimilarityAppliesToSets(test_names, training_names) ==
    Range(test_names) = Range(training_names)

\* The test that decides whether the similarity matrix is computed.
SimilarityApplies(test_names, training_names) == test_names = training_names

\* One row of the similarity matrix: every cell divided by the diagonal value
\* read before the row's loop.
\* Variant: the diagonal read again for every cell, after it was divided itself.
NormalizeCellByCurrentDiagonal(matrix, row, col, denom) ==
    DivideCell(matrix, row, col, GetFloat(matrix, row, row))

\* self.similarity_matrix[ row ][ col ] /= denom
NormalizeCell(matrix, row, col, denom) == DivideCell(matrix, row, col, denom)

RECURSIVE NormalizeRow(_, _, _, _)
NormalizeRow(matrix, row, cols, denom) ==
    IF cols = <<>> THEN matrix
    ELSE NormalizeRow(NormalizeCell(matrix, row, Head(cols), denom), row, Tail(cols), denom)

\* Variant: a row whose diagonal is zero is skipped without an error.
RECURSIVE NormalizeRowsSkippingZero(_, _, _)
NormalizeRowsSkippingZero(matrix, rows, cols) ==
    IF rows = <<>> THEN [matrix |-> matrix, raised |-> "none"]
    ELSE LET row == Head(rows)
             denom == GetFloat(matrix, row, row)
             m1 == SetCell(matrix, row, row, denom)
         IN  IF cols = <<>> \/ RatIsZero(denom)
             THEN NormalizeRowsSkippingZero(m1, Tail(rows), cols)
             ELSE NormalizeRowsSkippingZero(NormalizeRow(m1, row, cols, denom),
                                            Tail(rows), cols)

\* The rows of the similarity matrix, in the test set's order.  A zero diagonal
\* raises at the first cell of its row; the rows before it are normalized.
RECURSIVE NormalizeRows(_, _, _)
NormalizeRows(matrix, rows, cols) ==
    IF rows = <<>> THEN [matrix |-> matrix, raised |-> "none"]
    ELSE LET row == Head(rows)
             denom == GetFloat(matrix, row, row)
             m1 == SetCell(matrix, row, row, denom)
         IN  IF cols = <<>> THEN NormalizeRows(m1, Tail(rows), cols)
             ELSE IF RatIsZero(denom)
             THEN [matrix |-> SetCell(m1, row, Head(cols), GetFloat(m1, row, Head(cols))),
                   raised |-> "ZeroDivisionError"]
             ELSE NormalizeRows(NormalizeRow(m1, row, cols, denom), Tail(rows), cols)

\* deepcopy( self.average_class_probability_matrix )
DeepCopy(matrix) == matrix

\* float( num_correct ) / float( num_classifications )
Accuracy(num_correct, num_classified) == Rat(num_correct, num_classified)

\* The body of GenerateStats of a FeatureSpaceClassificationExperiment, run by
\* the call op: GenerateStats itself, or a method that calls it.
StatsCall(op) ==
    \E keys \in Enumerations(DOMAIN FeatureWeightLists(EmptyDict, individual_results)) :
        LET batches == BatchesWithStats(individual_results, training_set)
            base == BaseStats(batches, keys)
            st == AddBatches(EmptyStats, batches, test_set, training_set)
            avg == FinalizeAverages(st.average_class_probability_matrix,
                                    Sorted(test_set), Sorted(training_set),
                                    NumSplits(batches))
            applies == avg.raised = "none" /\ SimilarityApplies(test_set, training_set)
            sim == IF applies
                   THEN NormalizeRows(DeepCopy(avg.matrix), test_set, training_set)
                   ELSE [matrix |-> EmptyDict, raised |-> avg.raised]
            raised == IF sim.raised # "none" THEN sim.raised
                      ELSE IF st.num_classifications = 0 THEN "ZeroDivisionError"
                      ELSE "none"
        IN  /\ individual_results' = batches
            /\ ground_truth_values' = base.ground_truth_values
            /\ predicted_values' = base.predicted_values
            /\ feature_weight_statistics' = base.feature_weight_statistics
            /\ feature_weight_lists_keys' = keys
            /\ confusion_matrix' = Some(st.confusion_matrix)
            /\ num_correct_classifications' = Some(st.num_correct_classifications)
            /\ num_classifications_per_class' = Some(st.num_classifications_per_class)
            /\ num_correct_classifications_per_class' =
                   Some(st.num_correct_classifications_per_class)
            /\ num_classifications' = st.num_classifications
            /\ average_class_probability_matrix' = Some(avg.matrix)
            /\ similarity_matrix' =
                   IF applies THEN Some(sim.matrix) ELSE similarity_matrix
            /\ classification_accuracy' =
                   IF raised = "none"
                   THEN Some(Accuracy(st.num_correct_classifications,
                                      st.num_classifications))
                   ELSE classification_accuracy
            /\ call' = Call(op, raised)
            /\ UNCHANGED <<test_set, training_set>>

\* experiment.GenerateStats() on a FeatureSpaceClassificationExperiment.
GenerateStats == StatsCall("GenerateStats") /\ UNCHANGED <<reportVars, shuffle, regression, grid>>

(***************************************************************************)
(* Batches reaching the experiment.                                        *)
(***************************************************************************)
\* The sample predictions a classifier trained on these classes can return.
SampleKinds(names) ==
    {SampleClassification(gt, pred, names) : gt \in ClassNames, pred \in Range(names)}

RECURSIVE TotalSamples(_)
TotalSamples(batches) ==
    IF batches = <<>> THEN 0
    ELSE Len(Head(batches).individual_results) + TotalSamples(Tail(batches))

\* exp.individual_results.append( split ): a batch of sample classifications
\* whose own statistics are not computed yet.
AppendBatch ==
    /\ Len(individual_results) < MaxBatches
    /\ \E n \in 1..(MaxSamples - TotalSamples(individual_results)) :
         \E samples \in [1..n -> SampleKinds(training_set)] :
            individual_results' =
                Append(individual_results,
                       Batch("FeatureSpaceClassification", samples, <<>>, <<>>, <<>>))
    /\ call' = Call("append", "none")
    /\ UNCHANGED <<test_set, training_set, baseVars, clsVars, reportVars, shuffle, regression, grid>>

Next == AppendBatch \/ GenerateStats

Spec == Init /\ [][Next]_vars

(***************************************************************************)
(* The base class on batches of regression results.                        *)
(***************************************************************************)
\* A SingleSampleRegression per entry of the longer value list.
RegressionSamples(gt_values, pred_values) ==
    LET n == IF Len(gt_values) >= Len(pred_values) THEN Len(gt_values) ELSE Len(pred_values)
    IN  [i \in 1..(IF n = 0 THEN 1 ELSE n) |->
            [ground_truth_value |-> IF i <= Len(gt_values) THEN Some(gt_values[i]) ELSE None,
             predicted_value |-> IF i <= Len(pred_values) THEN Some(pred_values[i]) ELSE None]]

\* A regression batch as NewShuffleSplit appends it: batch_result.GenerateStats()
\* has been called on it.
RegressionBatch(weights, gt_values, pred_values) ==
    BatchGenerateStats(
        Batch("FeatureSpaceRegression", RegressionSamples(gt_values, pred_values),
              weights, gt_values, pred_values),
        <<>>)

\* The same batch with tiled results: the per-tile results and value lists are
\* in the tiled_ fields, the per-image ones in the plain fields.
TiledBatch(b, image_gt_values, image_pred_values) ==
    [b EXCEPT
        !.tiled_results = b.individual_results,
        !.tiled_ground_truth_values = b.ground_truth_values,
        !.tiled_predicted_values = b.predicted_values,
        !.individual_results = RegressionSamples(image_gt_values, image_pred_values),
        !.ground_truth_values = image_gt_values,
        !.predicted_values = image_pred_values]

\* The value lists of the batches of the model: both lists, one of them, none.
ValueLists ==
    {[gt |-> <<1>>, pred |-> <<3>>],
     [gt |-> <<1, 2>>, pred |-> <<3, 4>>],
     [gt |-> <<2>>, pred |-> <<>>],
     [gt |-> <<>>, pred |-> <<4>>],
     [gt |-> <<>>, pred |-> <<>>]}

\* The feature weights of a batch: (name, value) pairs of distinct features
\* in ranked order, the larger value first; <<>> for a batch without weights.
Weight(name, value) == [name |-> name, value |-> value]
FeatureWeights ==
    {<<>>,
     <<Weight("f1", 4)>>,
     <<Weight("f1", 6)>>,
     <<Weight("f2", 4)>>,
     <<Weight("f1", 6), Weight("f2", 4)>>,
     <<Weight("f2", 4), Weight("f1", 4)>>}

\* experiment.individual_results.append( batch_result ), the batch differing
\* in its feature weights.
AppendWeightedBatch ==
    /\ Len(individual_results) < MaxWeightBatches
    /\ \E weights \in FeatureWeights :
          individual_results' =
              Append(individual_results, RegressionBatch(weights, <<1>>, <<3>>))
    /\ call' = Call("append", "none")
    /\ UNCHANGED <<test_set, training_set, baseVars, clsVars, reportVars, shuffle, regression, grid>>

\* experiment.individual_results.append( batch_result ), the batch differing
\* in its value lists and in having tiled results.
AppendValueBatch ==
    /\ Len(individual_results) < MaxValueBatches
    /\ \E lists \in ValueLists : \E tiled \in BOOLEAN :
          LET b == RegressionBatch(<<>>, lists.gt, lists.pred)
          IN  individual_results' =
                  Append(individual_results,
                         IF tiled THEN TiledBatch(b, <<7>>, <<8>>) ELSE b)
    /\ call' = Call("append", "none")
    /\ UNCHANGED <<test_set, training_set, baseVars, clsVars, reportVars, shuffle, regression, grid>>

\* experiment.GenerateStats() on a FeatureSpacePredictionExperiment.
BaseGenerateStats ==
    \E keys \in Enumerations(DOMAIN FeatureWeightLists(EmptyDict, individual_results)) :
        LET batches == BatchesWithStats(individual_results, training_set)
            base == BaseStats(batches, keys)
        IN  /\ base.num_classifications <= MaxClassifications
            /\ individual_results' = batches
            /\ num_classifications' = base.num_classifications
            /\ ground_truth_values' = base.ground_truth_values
            /\ predicted_values' = base.predicted_values
            /\ feature_weight_statistics' = base.feature_weight_statistics
            /\ feature_weight_lists_keys' = keys
            /\ call' = Call("BaseGenerateStats", "none")
            /\ UNCHANGED <<test_set, training_set, clsVars, reportVars, shuffle, regression, grid>>

\* FeatureSpacePredictionExperiment( training_set=..., test_set=... )
InitBase ==
    /\ test_set = <<"A", "B">>
    /\ training_set = <<"A", "B">>
    /\ InitFields

NextWeights == AppendWeightedBatch \/ BaseGenerateStats
SpecWeights == InitBase /\ [][NextWeights]_vars

NextValues == AppendValueBatch \/ BaseGenerateStats
SpecValues == InitBase /\ [][NextValues]_vars

(***************************************************************************)
(* Properties of the classification aggregate.                             *)
(***************************************************************************)
\* The last call was GenerateStats and it returned.
Completed == call.op = "GenerateStats" /\ call.raised = "none"

\* The sum over the batches of their own cell (g, p), a missing cell being 0.
RECURSIVE SumOfBatchCounts(_, _, _)
SumOfBatchCounts(batches, g, p) ==
    IF batches = <<>> THEN 0
    ELSE LET m == Head(batches).confusion_matrix
         IN  (IF g \in DOMAIN m /\ p \in DOMAIN m[g] THEN m[g][p] ELSE 0)
             + SumOfBatchCounts(Tail(batches), g, p)

\* The sum over the batches of their own average class probability (g, p).
RECURSIVE SumOfBatchProbabilities(_, _, _)
SumOfBatchProbabilities(batches, g, p) ==
    IF batches = <<>> THEN RatOfInt(0)
    ELSE LET m == Head(batches).average_class_probability_matrix
         IN  RatAdd(IF g \in DOMAIN m /\ p \in DOMAIN m[g] THEN m[g][p] ELSE RatOfInt(0),
                    SumOfBatchProbabilities(Tail(batches), g, p))

\* That sum divided by the number of batches.
MeanOfBatchProbabilities(g, p) ==
    RatDiv(SumOfBatchProbabilities(individual_results, g, p),
           RatOfInt(Len(individual_results)))

RECURSIVE SumOver(_, _)
SumOver(cells, matrix) ==
    IF cells = {} THEN 0
    ELSE LET c == CHOOSE x \in cells : TRUE
         IN  matrix[c[1]][c[2]] + SumOver(cells \ {c}, matrix)

\* The total of all cells, and of the cells whose two names are equal.
GrandTotal(matrix) == SumOver(Cells(matrix), matrix)
DiagonalTotal(matrix) == SumOver({c \in Cells(matrix) : c[1] = c[2]}, matrix)

RECURSIVE SumOfBatchLengths(_)
SumOfBatchLengths(batches) ==
    IF batches = <<>> THEN 0
    ELSE Len(Head(batches).individual_results) + SumOfBatchLengths(Tail(batches))

\* C1: after GenerateStats, every cell (g, p) with g a class of the test set
\* and p a class of the training set holds the sum over all batches of the
\* batch's own count for (g, p), a cell the batch lacks counting as 0.
C1_CellIsSumOverBatches ==
    Completed =>
        \A g \in Range(test_set) : \A p \in Range(training_set) :
            confusion_matrix.val[g][p] = SumOfBatchCounts(individual_results, g, p)

\* Three one-sample batches: A->A, A->A and A->B give A->A = 2 and A->B = 1.
C1_Witness ==
    /\ Completed
    /\ Len(individual_results) = 3
    /\ test_set = <<"A", "B">>
    /\ "B" \in Range(training_set)
    /\ confusion_matrix.val["A"]["A"] = 2
    /\ confusion_matrix.val["A"]["B"] = 1

\* C2: after GenerateStats has completed, the confusion matrix has an entry
\* for every pair of a test-set class and a training-set class, zero-count
\* pairs included.
C2_EveryPairHasAnEntry ==
    Completed => (Range(test_set) \X Range(training_set)) \subseteq Cells(confusion_matrix.val)

\* A completed call after which the pair (B, A), which no sample of any batch
\* produced, is an entry with count 0.
C2_Witness ==
    /\ Completed
    /\ "B" \in Range(test_set)
    /\ \A i \in 1..Len(individual_results) :
          "B" \notin DOMAIN individual_results[i].confusion_matrix
    /\ <<"B", "A">> \in Cells(confusion_matrix.val)
    /\ confusion_matrix.val["B"]["A"] = 0

\* C3: after GenerateStats, the grand total of all cells of the confusion
\* matrix equals num_classifications, the sum of len( batch ) over the batches.
C3_GrandTotalIsNumClassifications ==
    Completed =>
        /\ num_classifications = SumOfBatchLengths(individual_results)
        /\ GrandTotal(confusion_matrix.val) = num_classifications

\* C4: after GenerateStats, num_correct_classifications is the sum of the
\* cells whose ground-truth name equals the predicted name,
\* classification_accuracy is num_correct_classifications / num_classifications,
\* and 0 <= classification_accuracy <= 1.
C4_AccuracyIsCorrectOverTotal ==
    Completed =>
        /\ num_correct_classifications.val = DiagonalTotal(confusion_matrix.val)
        /\ classification_accuracy.val.n * num_classifications
               = num_correct_classifications.val * classification_accuracy.val.d
        /\ RatLe(RatOfInt(0), classification_accuracy.val)
        /\ RatLe(classification_accuracy.val, RatOfInt(1))

\* A completed call with some correct and some wrong classifications.
C4_Witness ==
    /\ Completed
    /\ num_correct_classifications.val = 2
    /\ num_classifications = 3
    /\ classification_accuracy.val = Rat(2, 3)

\* C8: after GenerateStats, every cell of average_class_probability_matrix is
\* the sum over all batches of the batch's own cell divided by the number of
\* batches, whatever the number of classifications of each batch.
C8_AverageIsSumOverNumberOfBatches ==
    Completed =>
        \A g \in Range(test_set) : \A p \in Range(training_set) :
            average_class_probability_matrix.val[g][p] = MeanOfBatchProbabilities(g, p)

\* A batch of two samples (A->A, A->B) and a batch of one (A->A): the cell
\* (A, A) is (1/2 + 1) / 2 = 3/4, not the 2/3 a weighting by counts gives.
C8_Witness ==
    /\ Completed
    /\ Len(individual_results) = 2
    /\ Len(individual_results[1].individual_results)
          # Len(individual_results[2].individual_results)
    /\ "A" \in Range(training_set)
    /\ average_class_probability_matrix.val["A"]["A"] = Rat(3, 4)

\* C9 as stated: GenerateStats computes the similarity matrix when, and only
\* when, the class names of the test set and of the training set are equal as
\* sets, the same names in another order included.
C9_ComputedIffSetEqual ==
    (call.op = "GenerateStats" /\ individual_results # <<>>) =>
        (similarity_matrix # None <=> Range(test_set) = Range(training_set))

\* C9, amended: GenerateStats computes the similarity matrix when, and only
\* when, the two class-name lists are equal, the same names in the same order.
C9_ComputedIffListEqual ==
    (call.op = "GenerateStats" /\ individual_results # <<>>) =>
        (similarity_matrix # None <=> test_set = training_set)

\* A completed call that computed the similarity matrix.
C9_Witness ==
    /\ Completed
    /\ test_set = <<"A", "B">>
    /\ training_set = <<"A", "B">>
    /\ similarity_matrix # None

\* C10: whenever GenerateStats computes the similarity matrix, every row c is
\* the row of the average class probability matrix divided by that row's
\* diagonal value as it was before the division, so the diagonal is 1, and
\* the average class probability matrix is left as it was.
C10_RowsDividedByOwnDiagonal ==
    (Completed /\ test_set = training_set) =>
        \A c \in Range(test_set) :
            /\ similarity_matrix.val[c][c] = RatOfInt(1)
            /\ \A p \in Range(training_set) :
                  /\ similarity_matrix.val[c][p] =
                        RatDiv(MeanOfBatchProbabilities(c, p), MeanOfBatchProbabilities(c, c))
                  /\ average_class_probability_matrix.val[c][p] =
                        MeanOfBatchProbabilities(c, p)

\* Row A is (1/2, 1/2) in the average matrix and (1, 1) in the similarity matrix.
C10_Witness ==
    /\ Completed
    /\ test_set = <<"A", "B">>
    /\ training_set = <<"A", "B">>
    /\ average_class_probability_matrix.val["A"]["B"] = Rat(1, 2)
    /\ similarity_matrix.val["A"]["B"] = RatOfInt(1)
    /\ similarity_matrix.val["A"]["A"] = RatOfInt(1)

\* The last call was GenerateStats and it went as far as the similarity matrix.
ReachedSimilarity ==
    /\ call.op = "GenerateStats"
    /\ individual_results # <<>>
    /\ test_set = training_set

\* Some row of the average class probability matrix has a zero diagonal entry.
ZeroDiagonal ==
    \E c \in Range(test_set) :
        RatIsZero(GetFloat(average_class_probability_matrix.val, c, c))

\* C11: when GenerateStats normalizes the similarity matrix and the diagonal
\* entry of some row of the average class probability matrix is zero, the call
\* raises an error at that row; a call that returns has left no row undivided.
C11_ZeroDiagonalRaises ==
    ReachedSimilarity =>
        IF ZeroDiagonal THEN call.raised = "ZeroDivisionError"
        ELSE /\ call.raised = "none"
             /\ \A c \in Range(test_set) : similarity_matrix.val[c][c] = RatOfInt(1)

\* No sample of any batch has the ground truth B: the row B of the average
\* matrix is zero, the call raised after it had normalized the row A.
C11_Witness ==
    /\ ReachedSimilarity
    /\ test_set = <<"A", "B">>
    /\ RatIsZero(average_class_probability_matrix.val["B"]["B"])
    /\ call.raised = "ZeroDivisionError"
    /\ similarity_matrix.val["A"]["A"] = RatOfInt(1)

\* C12: after GenerateStats has hit the zero diagonal of the similarity matrix,
\* the other aggregate statistics of the same run are computed and available:
\* the confusion matrix, num_correct_classifications, the average class
\* probability matrix and classification_accuracy.
C12_OtherStatisticsAvailable ==
    (ReachedSimilarity /\ call.raised = "ZeroDivisionError") =>
        /\ confusion_matrix # None
        /\ num_correct_classifications # None
        /\ average_class_probability_matrix # None
        /\ classification_accuracy # None

(***************************************************************************)
(* Properties of the base aggregate.                                       *)
(***************************************************************************)
FeatureNames == {"f1", "f2"}

\* The batches whose weights contain the feature, and its weight in one.
BatchesUsing(f) ==
    {i \in 1..Len(individual_results) :
        \E k \in 1..Len(individual_results[i].feature_weights) :
            individual_results[i].feature_weights[k].name = f}
WeightIn(i, f) ==
    LET w == individual_results[i].feature_weights
    IN  w[CHOOSE k \in 1..Len(w) : w[k].name = f].value

RECURSIVE SumOfWeights(_, _)
SumOfWeights(is, f) ==
    IF is = {} THEN 0
    ELSE LET i == CHOOSE x \in is : TRUE
         IN  WeightIn(i, f) + SumOfWeights(is \ {i}, f)

\* The positions of the statistic tuples of a feature.
TuplesOf(f) ==
    {k \in 1..Len(feature_weight_statistics.val) :
        feature_weight_statistics.val[k].fname = f}

\* C5: after the base GenerateStats every feature that appears in the weights
\* of at least one batch has one tuple: count is the number of batches whose
\* weights contain it, mean is the sum of its weights over the total number
\* of batches, min and max are taken over the batches that contain it.  A
\* feature of no batch has no tuple.
C5_FeatureWeightStatistics ==
    call.op = "BaseGenerateStats" =>
        \A f \in FeatureNames :
            IF BatchesUsing(f) = {} THEN TuplesOf(f) = {}
            ELSE /\ Cardinality(TuplesOf(f)) = 1
                 /\ \A k \in TuplesOf(f) :
                      LET t == feature_weight_statistics.val[k] IN
                      /\ t.count = Cardinality(BatchesUsing(f))
                      /\ t.mean = Rat(SumOfWeights(BatchesUsing(f), f),
                                      Len(individual_results))
                      /\ \E i \in BatchesUsing(f) : t.min = WeightIn(i, f)
                      /\ \A i \in BatchesUsing(f) : t.min <= WeightIn(i, f)
                      /\ \E i \in BatchesUsing(f) : t.max = WeightIn(i, f)
                      /\ \A i \in BatchesUsing(f) : t.max >= WeightIn(i, f)

\* f1 has the weights 4 and 6 in two of three batches: mean 10/3, count 2,
\* min 4, max 6.
C5_Witness ==
    /\ call.op = "BaseGenerateStats"
    /\ Len(individual_results) = 3
    /\ \E k \in TuplesOf("f1") :
          LET t == feature_weight_statistics.val[k] IN
          /\ t.mean = Rat(10, 3)
          /\ t.count = 2
          /\ t.min = 4
          /\ t.max = 6

\* The feature names in the order in which a scan of the batches in batch
\* order, and of the weights of a batch in their ranked order, first meets them.
RECURSIVE NamesInOrder(_, _)
NamesInOrder(seen, weights) ==
    IF weights = <<>> THEN seen
    ELSE NamesInOrder(IF Head(weights).name \in Range(seen) THEN seen
                      ELSE Append(seen, Head(weights).name),
                      Tail(weights))
RECURSIVE DiscoveryOrder(_, _)
DiscoveryOrder(seen, batches) ==
    IF batches = <<>> THEN seen
    ELSE DiscoveryOrder(NamesInOrder(seen, Head(batches).feature_weights), Tail(batches))

Position(names, f) == CHOOSE i \in 1..Len(names) : names[i] = f

\* The list is in non-increasing order of mean, and tuples of equal mean are
\* in the order of the list names.
SortedWithTiesIn(names) ==
    \A i, j \in 1..Len(feature_weight_statistics.val) :
        i < j =>
            LET a == feature_weight_statistics.val[i]
                b == feature_weight_statistics.val[j]
            IN  /\ RatLe(b.mean, a.mean)
                /\ a.mean = b.mean => Position(names, a.fname) < Position(names, b.fname)

\* C6 as stated: feature_weight_statistics is sorted in non-increasing order
\* of mean, and two features of equal mean appear in the order in which they
\* were first discovered.
C6_TiesInDiscoveryOrder ==
    call.op = "BaseGenerateStats" =>
        SortedWithTiesIn(DiscoveryOrder(<<>>, individual_results))

\* C6, amended: feature_weight_statistics is sorted in non-increasing order of
\* mean, and two features of equal mean appear in the order in which the dict
\* feature_weight_lists enumerates its keys.
C6_TiesInEnumerationOrder ==
    call.op = "BaseGenerateStats" => SortedWithTiesIn(feature_weight_lists_keys)

\* Two features of equal mean for which the dict's order is not the order of
\* discovery, and a feature of larger mean in front.
C6_Witness ==
    /\ call.op = "BaseGenerateStats"
    /\ Len(feature_weight_statistics.val) = 2
    /\ feature_weight_statistics.val[1].mean = feature_weight_statistics.val[2].mean
    /\ feature_weight_lists_keys # DiscoveryOrder(<<>>, individual_results)

\* The value lists a batch contributes: the tiled ones when it has tiled results.
GroundTruthListOf(b) ==
    IF b.tiled_results # <<>> THEN b.tiled_ground_truth_values ELSE b.ground_truth_values
PredictedListOf(b) ==
    IF b.tiled_results # <<>> THEN b.tiled_predicted_values ELSE b.predicted_values

\* The concatenation, in batch order, of the lists of the batches that have one.
RECURSIVE ConcatGroundTruth(_)
ConcatGroundTruth(batches) ==
    IF batches = <<>> THEN <<>>
    ELSE GroundTruthListOf(Head(batches)) \o ConcatGroundTruth(Tail(batches))
RECURSIVE ConcatPredicted(_)
ConcatPredicted(batches) ==
    IF batches = <<>> THEN <<>>
    ELSE PredictedListOf(Head(batches)) \o ConcatPredicted(Tail(batches))

SomeBatchHasGroundTruth ==
    \E i \in 1..Len(individual_results) : GroundTruthListOf(individual_results[i]) # <<>>
SomeBatchHasPredictions ==
    \E i \in 1..Len(individual_results) : PredictedListOf(individual_results[i]) # <<>>

\* C7 as stated, on an experiment that holds batches: after the base
\* GenerateStats, ground_truth_values is the
\* concatenation, in batch order, of the ground-truth lists of the batches
\* that have ground truth, and predicted_values that of the predicted-value
\* lists of the batches that have predictions.
C7_ValuesAreConcatenation ==
    (call.op = "BaseGenerateStats" /\ individual_results # <<>>) =>
        /\ ground_truth_values = Some(ConcatGroundTruth(individual_results))
        /\ predicted_values = Some(ConcatPredicted(individual_results))

\* C7, amended: the same when at least one batch has the respective list; when
\* no batch has it, the call leaves the field of the experiment as it was.
C7_ValuesConcatenatedOrKept ==
    [][call'.op = "BaseGenerateStats" =>
        /\ IF SomeBatchHasGroundTruth
           THEN ground_truth_values' = Some(ConcatGroundTruth(individual_results))
           ELSE ground_truth_values' = ground_truth_values
        /\ IF SomeBatchHasPredictions
           THEN predicted_values' = Some(ConcatPredicted(individual_results))
           ELSE predicted_values' = predicted_values]_vars

\* Three batches: ground truth and predictions, predictions only, and a tiled
\* batch with both; the batch without ground truth is skipped.
C7_Witness ==
    /\ call.op = "BaseGenerateStats"
    /\ Len(individual_results) = 3
    /\ individual_results[2].ground_truth_values = <<>>
    /\ individual_results[2].predicted_values = <<4>>
    /\ individual_results[3].tiled_results # <<>>
    /\ ground_truth_values = Some(<<1, 1, 2>>)
    /\ predicted_values = Some(<<3, 4, 3, 4>>)

(***************************************************************************)
(* Python floats as IEEE 754 doubles: a significand of 53 bits, every      *)
(* operation rounded to the nearest double, ties to even.  The values that *)
(* occur are far from the overflow and underflow thresholds.               *)
(***************************************************************************)
\* The number of bits of the significand of a double.
SignificandBits == 53

\* A natural number of any size is kept as its digits to the base 2^LimbBits,
\* the least significant first.
LimbBits == 13
Base == 2 ^ LimbBits

RECURSIVE LimbsOf(_)
LimbsOf(i) == IF i = 0 THEN <<>> ELSE <<i % Base>> \o LimbsOf(i \div Base)

\* The digits without the zeros above the most significant digit.
RECURSIVE Trim(_)
Trim(b) == IF b = <<>> \/ b[Len(b)] # 0 THEN b ELSE Trim(SubSeq(b, 1, Len(b) - 1))

\* b * k + carry, for k <= Base.
RECURSIVE TimesSmall(_, _, _)
TimesSmall(b, k, carry) ==
    IF b = <<>> THEN LimbsOf(carry)
    ELSE LET t == Head(b) * k + carry
         IN  <<t % Base>> \o TimesSmall(Tail(b), k, t \div Base)

\* b * 2^k
ShiftLeft(b, k) ==
    [i \in 1..(k \div LimbBits) |-> 0] \o TimesSmall(b, 2 ^ (k % LimbBits), 0)

\* The quotient and the remainder of b by a small k.
RECURSIVE DivSmall(_, _)
DivSmall(b, k) ==
    IF b = <<>> THEN [q |-> <<>>, r |-> 0]
    ELSE LET hi == DivSmall(Tail(b), k)
             t == hi.r * Base + Head(b)
         IN  [q |-> <<t \div k>> \o hi.q, r |-> t % k]

\* a - b - borrow, for a >= b + borrow.
RECURSIVE Minus(_, _, _)
Minus(a, b, borrow) ==
    IF a = <<>> THEN <<>>
    ELSE LET x == Head(a) - (IF b = <<>> THEN 0 ELSE Head(b)) - borrow
         IN  <<(x + Base) % Base>>
             \o Minus(Tail(a), IF b = <<>> THEN <<>> ELSE Tail(b), IF x < 0 THEN 1 ELSE 0)

RECURSIVE PlusOne(_)
PlusOne(b) ==
    IF b = <<>> THEN <<1>>
    ELSE IF Head(b) < Base - 1 THEN <<Head(b) + 1>> \o Tail(b)
    ELSE <<0>> \o PlusOne(Tail(b))

\* a > b, for digits without leading zeros.
Greater(a, b) ==
    IF Len(a) # Len(b) THEN Len(a) > Len(b)
    ELSE \E i \in 1..Len(a) :
            /\ a[i] > b[i]
            /\ \A j \in (i + 1)..Len(a) : a[j] = b[j]

\* The number of binary digits of b, for digits without leading zeros.
BitLength(b) ==
    IF b = <<>> THEN 0
    ELSE LimbBits * (Len(b) - 1)
         + (CHOOSE n \in 1..LimbBits : 2 ^ (n - 1) <= b[Len(b)] /\ b[Len(b)] < 2 ^ n)

\* The binary digit i of b, the least significant being digit 1.
Bit(b, i) ==
    LET k == (i - 1) \div LimbBits + 1
    IN  IF k > Len(b) THEN 0 ELSE (b[k] \div 2 ^ ((i - 1) % LimbBits)) % 2

\* b \div 2^d
ShiftRight(b, d) ==
    LET q == d \div LimbBits
        r == d % LimbBits
        limb(k) == IF k <= Len(b) THEN b[k] ELSE 0
    IN  Trim([j \in 1..(Len(b) - q) |->
                 limb(j + q) \div 2 ^ r + (limb(j + q + 1) % 2 ^ r) * 2 ^ (LimbBits - r)])

\* The double nearest to b * 2^e, or to a value between b * 2^e and
\* (b + 1) * 2^e when inexact, which needs b to have 55 binary digits or more.
\* A double is kept as [m, e], the value m * 2^e.
RoundToDouble(b0, e, inexact) ==
    LET b == Trim(b0)
        d == BitLength(b) - SignificandBits
    IN  IF d <= 0 THEN [m |-> b, e |-> e]
        ELSE LET kept == ShiftRight(b, d)
                 sticky == inexact \/ \E i \in 1..(d - 1) : Bit(b, i) = 1
                 up == Bit(b, d) = 1 /\ (sticky \/ Bit(b, d + 1) = 1)
             IN  [m |-> IF up THEN PlusOne(kept) ELSE kept, e |-> e + d]

\* float( c ) / float( n ) for integers c >= 0 and n > 0.
FloatDiv(c, n) ==
    LET s == SignificandBits + 2 + BitLength(LimbsOf(n))
        d == DivSmall(ShiftLeft(LimbsOf(c), s), n)
    IN  RoundToDouble(d.q, -s, d.r # 0)

\* n * x for an int n >= 0 and a float x >= 0.
IntTimesFloat(n, x) == RoundToDouble(TimesSmall(x.m, n, 0), x.e, FALSE)

\* 1 - x for a float 0 <= x <= 1.
OneMinusFloat(x) ==
    IF x.m = <<>> THEN [m |-> <<1>>, e |-> 0]
    ELSE RoundToDouble(Minus(ShiftLeft(<<1>>, -x.e), x.m, 0), x.e, FALSE)

\* x > k for a float x >= 0 and an int k >= 0.
FloatGreaterThanInt(x, k) ==
    IF x.e >= 0 THEN Greater(Trim(ShiftLeft(x.m, x.e)), LimbsOf(k))
    ELSE Greater(Trim(x.m), ShiftLeft(LimbsOf(k), -x.e))

\* a + b + carry
RECURSIVE Plus(_, _, _)
Plus(a, b, carry) ==
    IF a = <<>> /\ b = <<>> THEN LimbsOf(carry)
    ELSE LET x == (IF a = <<>> THEN 0 ELSE Head(a))
                  + (IF b = <<>> THEN 0 ELSE Head(b)) + carry
         IN  <<x % Base>>
             \o Plus(IF a = <<>> THEN <<>> ELSE Tail(a),
                     IF b = <<>> THEN <<>> ELSE Tail(b), x \div Base)

\* x + y for floats x >= 0 and y >= 0.
FloatPlus(x, y) ==
    LET e == IF x.e < y.e THEN x.e ELSE y.e
    IN  RoundToDouble(Plus(ShiftLeft(x.m, x.e - e), ShiftLeft(y.m, y.e - e), 0),
                      e, FALSE)

\* x / float( n ) for a float x >= 0 and an int n > 0.
FloatOverInt(x, n) ==
    LET s == SignificandBits + 2 + BitLength(LimbsOf(n))
        d == DivSmall(ShiftLeft(x.m, s), n)
    IN  RoundToDouble(d.q, x.e - s, d.r # 0)

\* x == y for floats: [m, e] is not unique, the values are compared.
FloatEquals(x, y) ==
    LET e == IF x.e < y.e THEN x.e ELSE y.e
    IN  Trim(ShiftLeft(x.m, x.e - e)) = Trim(ShiftLeft(y.m, y.e - e))

\* The float that self.classification_accuracy holds: the quotient of line 400.
FloatOfAccuracy(accuracy) == FloatDiv(accuracy.n, accuracy.d)

(***************************************************************************)
(* FeatureSpaceClassificationExperiment.Print: the accuracy line.          *)
(***************************************************************************)
\* Bound: the batches appended in the specification of Print.
MaxPrintBatches == 3

\* The rule of thumb that selects the normal approximation, on floats:
\* ((n * acc) > 5) and ((n * (1 - acc)) > 5)
NormalApproximationApplies(n, acc) ==
    /\ FloatGreaterThanInt(IntTimesFloat(n, acc), 5)
    /\ FloatGreaterThanInt(IntTimesFloat(n, OneMinusFloat(acc)), 5)

\* The kind of accuracy line Print writes.
AccuracyLine(error_bars, n, acc) ==
    IF ~error_bars THEN "no interval"
    ELSE IF NormalApproximationApplies(n, acc) THEN "normal approx. interval"
    ELSE "Wilson score interval"

\* experiment.Print(): GenerateStats is called first when the accuracy is not
\* computed yet, and an exception it raises ends Print.
ExperimentPrint ==
    /\ use_error_bars # None
    /\ IF classification_accuracy = None
       THEN StatsCall("Print")
       ELSE /\ call' = Call("Print", "none")
            /\ UNCHANGED <<batchVars, baseVars, clsVars>>
    /\ printed' =
          IF call'.raised = "none"
          THEN Some(AccuracyLine(use_error_bars.val, num_classifications',
                                 FloatOfAccuracy(classification_accuracy'.val)))
          ELSE printed
    /\ UNCHANGED <<use_error_bars, individual_stats, sorted_images, shuffle, regression, grid>>

\* experiment.use_error_bars as NewShuffleSplit sets it on the new experiment:
\* True with a random_state, False without.
SetErrorBars ==
    /\ use_error_bars = None
    /\ \E error_bars \in BOOLEAN : use_error_bars' = Some(error_bars)
    /\ call' = Call("NewShuffleSplit", "none")
    /\ UNCHANGED <<batchVars, baseVars, clsVars, printed, individual_stats,
                   sorted_images, shuffle, regression, grid>>

Repeat(x, k) == [i \in 1..k |-> x]

\* The samples of a split: so many of class A and of class B classified
\* correctly, so many of class A classified as B.
CountedSamples(correct_a, correct_b, wrong) ==
    Repeat(SampleClassification("A", "A", training_set), correct_a)
    \o Repeat(SampleClassification("B", "B", training_set), correct_b)
    \o Repeat(SampleClassification("A", "B", training_set), wrong)

\* The splits of the specification of Print, as those three numbers.
SplitCounts == {<<3, 3, 0>>, <<0, 0, 6>>, <<2, 2, 1>>, <<0, 0, 4>>}

\* experiment.individual_results.append( batch_result )
AppendCountedBatch ==
    /\ use_error_bars # None
    /\ Len(individual_results) < MaxPrintBatches
    /\ \E counts \in SplitCounts :
          individual_results' =
              Append(individual_results,
                     BatchGenerateStats(
                         Batch("FeatureSpaceClassification",
                               CountedSamples(counts[1], counts[2], counts[3]),
                               <<>>, <<>>, <<>>),
                         training_set))
    /\ call' = Call("append", "none")
    /\ UNCHANGED <<test_set, training_set, baseVars, clsVars, reportVars, shuffle, regression, grid>>

NextPrint == SetErrorBars \/ AppendCountedBatch \/ ExperimentPrint
SpecPrint == InitBase /\ [][NextPrint]_vars

\* C13: with error bars enabled, Print uses the normal-approximation interval
\* exactly when more than 5 classifications are correct and more than 5 are
\* incorrect (n * acc > 5 and n * (1 - acc) > 5), and the Wilson score
\* interval in every other case.
C13_NormalExactlyWhenOverFive ==
    (call.op = "Print" /\ call.raised = "none" /\ use_error_bars = Some(TRUE)) =>
        LET correct == num_correct_classifications.val
            incorrect == num_classifications - correct
        IN  printed = Some(IF correct > 5 /\ incorrect > 5
                           THEN "normal approx. interval"
                           ELSE "Wilson score interval")

(***************************************************************************)
(* FeatureSpaceClassificationExperiment.PerSampleStatistics.               *)
(***************************************************************************)
\* Bounds: the batches appended in the specification of the per-sample
\* statistics, and the samples of one batch.
MaxSampleBatches == 2
MaxBatchSamples == 2

\* The samples of the data set, by source path, each with its ground truth.
SourcePaths == {"a", "b", "c"}
GroundTruthOf(path) == IF path = "a" THEN "B" ELSE "A"

\* The order of Python's string comparison on the source paths.
PathRank(path) == CASE path = "a" -> 1 [] path = "b" -> 2 [] path = "c" -> 3

\* cmp( x, y ) on values of these ranks.
Cmp(x, y) == IF x < y THEN -1 ELSE IF x > y THEN 1 ELSE 0

\* A SingleSampleClassification of the sample at path.
NamedSampleClassification(path, pred, names) ==
    [source_filepath |-> path,
     ground_truth_class_name |-> GroundTruthOf(path),
     predicted_class_name |-> pred,
     marginal_probabilities |-> MarginalProbabilities(names, pred)]

\* self.individual_results == 0: a list never equals an int.
ListEqualsInt(list, i) == FALSE

\* accumulated_individual_results after the results of one batch.
RECURSIVE AccumulateResults(_, _)
AccumulateResults(acc, results) ==
    IF results = <<>> THEN acc
    ELSE LET path == Head(results).source_filepath
             old == IF path \in DOMAIN acc THEN acc[path] ELSE <<>>
         IN  AccumulateResults(
                 [k \in DOMAIN acc \cup {path} |->
                     IF k = path THEN Append(old, Head(results)) ELSE acc[k]],
                 Tail(results))

\* accumulated_individual_results after all batches.
RECURSIVE AccumulateBatches(_, _)
AccumulateBatches(acc, batches) ==
    IF batches = <<>> THEN acc
    ELSE AccumulateBatches(AccumulateResults(acc, Head(batches).individual_results),
                           Tail(batches))

\* zip( mp_totals, marginal_probabilities ) summed: as long as the shorter list.
ZipSum(mp_totals, mps) ==
    [i \in 1..(IF Len(mp_totals) <= Len(mps) THEN Len(mp_totals) ELSE Len(mps)) |->
        mp_totals[i] + mps[i]]

\* Variant: the totals are the marginal probabilities of the latest result.
AddMarginalsOfLast(mp_totals, mps) == Some(mps)

\* One step of the loop that totals the marginal probabilities: a copy of the
\* first list, the element-wise sum after that.  not mp_totals holds for None
\* and for an empty list.
AddMarginals(mp_totals, mps) ==
    IF mp_totals = None \/ mp_totals = Some(<<>>) THEN Some(mps)
    ELSE Some(ZipSum(mp_totals.val, mps))

RECURSIVE MpTotals(_, _)
MpTotals(mp_totals, results) ==
    IF results = <<>> THEN mp_totals
    ELSE MpTotals(AddMarginals(mp_totals, Head(results).marginal_probabilities),
                  Tail(results))

\* vals.count( gt_class )
CountOf(results, gt_class) ==
    Cardinality({i \in 1..Len(results) : results[i].predicted_class_name = gt_class})

\* self.individual_stats[ filename ]
SampleStat(results) ==
    LET mp_totals == MpTotals(None, results).val
        gt_class == results[1].ground_truth_class_name
    IN  [count |-> Len(results),
         correct |-> Rat(CountOf(results, gt_class), Len(results)),
         mp_avgs |-> [i \in 1..Len(mp_totals) |-> Rat(mp_totals[i], Len(results))],
         gt_class |-> gt_class]

\* sort_func of the classification experiment.
ClassificationSortFunc(res_dict, A, B) ==
    IF res_dict[A][1].ground_truth_class_name = res_dict[B][1].ground_truth_class_name
    THEN Cmp(PathRank(A), PathRank(B))
    ELSE Cmp(PathRank(res_dict[A][1].source_filepath),
             PathRank(res_dict[B][1].source_filepath))

\* sorted( keys, sort_func ): the order is the same for every order of the
\* keys when sort_func is a total order on them.
RECURSIVE InsertImage(_, _, _)
InsertImage(res_dict, key, sorted) ==
    IF sorted = <<>> THEN <<key>>
    ELSE IF ClassificationSortFunc(res_dict, key, Head(sorted)) < 0 THEN <<key>> \o sorted
    ELSE <<Head(sorted)>> \o InsertImage(res_dict, key, Tail(sorted))
RECURSIVE SortedImages(_, _)
SortedImages(res_dict, keys) ==
    IF keys = <<>> THEN <<>>
    ELSE InsertImage(res_dict, keys[Len(keys)],
                     SortedImages(res_dict, SubSeq(keys, 1, Len(keys) - 1)))

\* experiment.PerSampleStatistics() on a FeatureSpaceClassificationExperiment.
\* keys: the order in which the dict accumulated_individual_results
\* enumerates the source paths.
PerSampleStatistics ==
    LET res_dict == AccumulateBatches(EmptyDict, individual_results) IN
    \E keys \in Enumerations(DOMAIN res_dict) :
        IF ListEqualsInt(individual_results, 0)
        THEN /\ call' = Call("PerSampleStatistics", "ValueError")
             /\ UNCHANGED <<batchVars, baseVars, clsVars, reportVars, shuffle, regression, grid>>
        ELSE /\ ground_truth_values' =
                    Some([i \in 1..Len(keys) |-> res_dict[keys[i]][1].ground_truth_class_name])
             /\ individual_stats' = Some([path \in DOMAIN res_dict |-> SampleStat(res_dict[path])])
             /\ sorted_images' = Some(SortedImages(res_dict, keys))
             /\ call' = Call("PerSampleStatistics", "none")
             /\ UNCHANGED <<batchVars, num_classifications, predicted_values,
                            feature_weight_statistics, feature_weight_lists_keys,
                            clsVars, use_error_bars, printed, shuffle, regression, grid>>

\* The results a split can hold: one result per sample of its test partition,
\* in the order of the paths.
SplitResults(names) ==
    {results \in UNION {[1..n -> {NamedSampleClassification(path, pred, names) :
                                     path \in SourcePaths, pred \in Range(names)}] :
                         n \in 1..MaxBatchSamples} :
        \A i, j \in DOMAIN results :
            i < j => PathRank(results[i].source_filepath) < PathRank(results[j].source_filepath)}

\* exp.individual_results.append( split )
AppendSampledBatch ==
    /\ Len(individual_results) < MaxSampleBatches
    /\ \E results \in SplitResults(training_set) :
          individual_results' =
              Append(individual_results,
                     Batch("FeatureSpaceClassification", results, <<>>, <<>>, <<>>))
    /\ call' = Call("append", "none")
    /\ UNCHANGED <<test_set, training_set, baseVars, clsVars, reportVars, shuffle, regression, grid>>

NextSamples == AppendSampledBatch \/ PerSampleStatistics
SpecSamples == InitBase /\ [][NextSamples]_vars

(***************************************************************************)
(* FeatureSpaceRegressionExperiment.PerSampleStatistics.                   *)
(***************************************************************************)
\* The ground-truth value of the sample at a source path.
GroundTruthValueOf(path) == IF path = "a" THEN 2 ELSE 1

\* A SingleSampleRegression of the sample at path.
NamedSampleRegression(path, pred_value) ==
    [source_filepath |-> path,
     ground_truth_value |-> GroundTruthValueOf(path),
     predicted_value |-> pred_value]

\* vals: the predicted values of the results of one sample.
PredictedValuesOfResults(results) == [i \in 1..Len(results) |-> results[i].predicted_value]

\* self.individual_stats[ filename ]; variance is the square of np.std( vals ).
RegressionSampleStat(results) ==
    LET vals == PredictedValuesOfResults(results) IN
    [count |-> Len(vals),
     min |-> MinSeq(vals),
     mean |-> Rat(SumSeq(vals), Len(vals)),
     max |-> MaxSeq(vals),
     variance |-> Rat(Len(vals) * SumSquares(vals) - SumSeq(vals) * SumSeq(vals),
                      Len(vals) * Len(vals))]

\* sort_func of the regression experiment.
RegressionSortFunc(res_dict, A, B) ==
    IF res_dict[A][1].ground_truth_value = res_dict[B][1].ground_truth_value
    THEN Cmp(PathRank(A), PathRank(B))
    ELSE Cmp(res_dict[A][1].ground_truth_value, res_dict[B][1].ground_truth_value)

RECURSIVE InsertRegressionImage(_, _, _)
InsertRegressionImage(res_dict, key, sorted) ==
    IF sorted = <<>> THEN <<key>>
    ELSE IF RegressionSortFunc(res_dict, key, Head(sorted)) < 0 THEN <<key>> \o sorted
    ELSE <<Head(sorted)>> \o InsertRegressionImage(res_dict, key, Tail(sorted))
RECURSIVE SortedRegressionImages(_, _)
SortedRegressionImages(res_dict, keys) ==
    IF keys = <<>> THEN <<>>
    ELSE InsertRegressionImage(res_dict, keys[Len(keys)],
             SortedRegressionImages(res_dict, SubSeq(keys, 1, Len(keys) - 1)))

\* experiment.PerSampleStatistics() on a FeatureSpaceRegressionExperiment.
RegressionPerSampleStatistics ==
    LET res_dict == AccumulateBatches(EmptyDict, individual_results) IN
    \E keys \in Enumerations(DOMAIN res_dict) :
        IF ListEqualsInt(individual_results, 0)
        THEN /\ call' = Call("RegressionPerSampleStatistics", "ValueError")
             /\ UNCHANGED <<batchVars, baseVars, clsVars, reportVars, shuffle, regression, grid>>
        ELSE /\ predicted_values' =
                    Some([i \in 1..Len(keys) |-> RegressionSampleStat(res_dict[keys[i]]).mean])
             /\ ground_truth_values' =
                    Some([i \in 1..Len(keys) |-> res_dict[keys[i]][1].ground_truth_value])
             /\ individual_stats' =
                    Some([path \in DOMAIN res_dict |-> RegressionSampleStat(res_dict[path])])
             /\ sorted_images' = Some(SortedRegressionImages(res_dict, keys))
             /\ call' = Call("RegressionPerSampleStatistics", "none")
             /\ UNCHANGED <<batchVars, num_classifications, feature_weight_statistics,
                            feature_weight_lists_keys, clsVars, use_error_bars,
                            printed, shuffle, regression, grid>>

\* The results a regression split can hold, in the order of the paths.
RegressionSplitResults ==
    {results \in UNION {[1..n -> {NamedSampleRegression(path, pred_value) :
                                     path \in SourcePaths, pred_value \in {3, 4}}] :
                         n \in 1..MaxBatchSamples} :
        \A i, j \in DOMAIN results :
            i < j => PathRank(results[i].source_filepath) < PathRank(results[j].source_filepath)}

\* experiment.individual_results.append( batch_result )
AppendRegressionSampledBatch ==
    /\ Len(individual_results) < MaxSampleBatches
    /\ \E results \in RegressionSplitResults :
          individual_results' =
              Append(individual_results,
                     Batch("FeatureSpaceRegression", results, <<>>, <<>>, <<>>))
    /\ call' = Call("append", "none")
    /\ UNCHANGED <<test_set, training_set, baseVars, clsVars, reportVars, shuffle, regression, grid>>

NextRegressionSamples == AppendRegressionSampledBatch \/ RegressionPerSampleStatistics
SpecRegressionSamples == InitBase /\ [][NextRegressionSamples]_vars

\* The per-sample report of the regression experiment is sorted by ground-truth
\* value first and by source path second.
RegressionSortedByGroundTruthThenPath ==
    call.op = "RegressionPerSampleStatistics" =>
        \A i, j \in 1..Len(sorted_images.val) :
            i < j =>
                LET a == sorted_images.val[i]
                    b == sorted_images.val[j]
                IN  \/ GroundTruthValueOf(a) < GroundTruthValueOf(b)
                    \/ /\ GroundTruthValueOf(a) = GroundTruthValueOf(b)
                       /\ PathRank(a) < PathRank(b)

\* The regression PerSampleStatistics raises on an experiment without batches.
RegressionNoBatchesIsAUsageError ==
    (call.op = "RegressionPerSampleStatistics" /\ individual_results = <<>>) =>
        call.raised = "ValueError"

(***************************************************************************)
(* Properties of the per-sample statistics.                                *)
(***************************************************************************)
\* C14: PerSampleStatistics on an experiment that holds no batch results
\* fails with the ValueError 'No batch results to analyze' and modifies no
\* state of the experiment.
C14_NoBatchesIsAUsageError ==
    (call.op = "PerSampleStatistics" /\ individual_results = <<>>) =>
        /\ call.raised = "ValueError"
        /\ ground_truth_values = None
        /\ individual_stats = None

\* C15: PerSampleStatistics reports the samples sorted by ground truth first
\* and by source path second: of two reported samples the one of the smaller
\* ground truth comes first, and of two samples of equal ground truth the one
\* of the smaller source path comes first.
C15_SortedByGroundTruthThenPath ==
    call.op = "PerSampleStatistics" =>
        \A i, j \in 1..Len(sorted_images.val) :
            i < j =>
                LET a == sorted_images.val[i]
                    b == sorted_images.val[j]
                    gt_a == NameRank(individual_stats.val[a].gt_class)
                    gt_b == NameRank(individual_stats.val[b].gt_class)
                IN  \/ gt_a < gt_b
                    \/ gt_a = gt_b /\ PathRank(a) < PathRank(b)

\* The places (batch, position) of the results of the sample at path.
ResultsOf(path) ==
    {<<i, j>> \in (1..Len(individual_results)) \X (1..MaxBatchSamples + 1) :
        /\ j <= Len(individual_results[i].individual_results)
        /\ individual_results[i].individual_results[j].source_filepath = path}
ResultAt(place) == individual_results[place[1]].individual_results[place[2]]

\* The sum over those places of the marginal probability of the class at t.
RECURSIVE SumOfMarginals(_, _)
SumOfMarginals(places, t) ==
    IF places = {} THEN 0
    ELSE LET place == CHOOSE x \in places : TRUE
         IN  ResultAt(place).marginal_probabilities[t] + SumOfMarginals(places \ {place}, t)

RECURSIVE SumOfCounts(_)
SumOfCounts(paths) ==
    IF paths = {} THEN 0
    ELSE LET path == CHOOSE x \in paths : TRUE
         IN  individual_stats.val[path].count + SumOfCounts(paths \ {path})

\* C16: after the classification PerSampleStatistics, individual_stats has an
\* entry for every sample that occurs in some batch, and only for those: the
\* number k of its results over all batches, c / k with c the number of those
\* results whose predicted class is its ground-truth class, the element-wise
\* mean of the k marginal-probability vectors, and its ground-truth class;
\* the numbers k of all samples add up to the number of results of all batches.
C16_PerSampleStatistics ==
    call.op = "PerSampleStatistics" =>
        /\ DOMAIN individual_stats.val = {path \in SourcePaths : ResultsOf(path) # {}}
        /\ \A path \in DOMAIN individual_stats.val :
              LET stat == individual_stats.val[path]
                  k == Cardinality(ResultsOf(path))
                  c == Cardinality({place \in ResultsOf(path) :
                          ResultAt(place).predicted_class_name = GroundTruthOf(path)})
              IN  /\ stat.count = k
                  /\ stat.correct = Rat(c, k)
                  /\ stat.gt_class = GroundTruthOf(path)
                  /\ Len(stat.mp_avgs) = Len(training_set)
                  /\ \A t \in 1..Len(training_set) :
                        stat.mp_avgs[t] = Rat(SumOfMarginals(ResultsOf(path), t), k)
        /\ SumOfCounts(DOMAIN individual_stats.val) = SumOfBatchLengths(individual_results)

\* The sample b occurs in two batches, predicted A once and B once: tested
\* twice, half correct, mean marginal probabilities (1/2, 1/2).
C16_Witness ==
    /\ call.op = "PerSampleStatistics"
    /\ Len(individual_results) = 2
    /\ "b" \in DOMAIN individual_stats.val
    /\ individual_stats.val["b"].count = 2
    /\ individual_stats.val["b"].correct = Rat(1, 2)
    /\ individual_stats.val["b"].mp_avgs = <<Rat(1, 2), Rat(1, 2)>>
    /\ Cardinality(DOMAIN individual_stats.val) = 2

(***************************************************************************)
(* FeatureSpacePredictionExperiment.NewShuffleSplit on a discrete feature  *)
(* space: the experiment is a FeatureSpaceClassificationExperiment whose   *)
(* training set and test set are the feature space.  The variable shuffle  *)
(* holds the arguments and the locals of the call, and pc, the statement   *)
(* the call is at.                                                         *)
(***************************************************************************)
\* Bound: the largest n_iter.
MaxIterations == 2

\* feature_space.num_features, and the weights computed from a training
\* partition, in ranked order.
NumFeatures == 2
RankedWeights == <<Weight("f1", 6), Weight("f2", 4)>>

\* The values randint() can return.
Seeds == {1, 2}

\* The argument features_size: its type and its value.
FeaturesSizes ==
    {[type |-> "float", value |-> Rat(-1, 2)],
     [type |-> "float", value |-> Rat(1, 2)],
     [type |-> "float", value |-> Rat(3, 2)],
     [type |-> "int", value |-> RatOfInt(-1)],
     [type |-> "int", value |-> RatOfInt(2)],
     [type |-> "int", value |-> RatOfInt(3)],
     [type |-> "str", value |-> RatOfInt(0)]}

\* The argument random_state: its type and its truth value.  True and False;
\* None; a non-zero int and 0; a RandomState; a non-zero float and 0.0.
RandomStates ==
    {[type |-> "bool", truthy |-> TRUE],
     [type |-> "bool", truthy |-> FALSE],
     [type |-> "NoneType", truthy |-> FALSE],
     [type |-> "int", truthy |-> TRUE],
     [type |-> "int", truthy |-> FALSE],
     [type |-> "RandomState", truthy |-> TRUE],
     [type |-> "float", truthy |-> TRUE],
     [type |-> "float", truthy |-> FALSE]}

\* The checks of features_size raise.
FeaturesSizeError(features_size) ==
    IF features_size.type = "float"
    THEN RatLt(features_size.value, RatOfInt(0)) \/ RatLt(RatOfInt(1), features_size.value)
    ELSE IF features_size.type = "int"
    THEN RatLt(features_size.value, RatOfInt(0))
         \/ RatLt(RatOfInt(NumFeatures), features_size.value)
    ELSE TRUE

\* int( round( x ) ) for x >= 0: halves are rounded away from zero.
RoundToInt(x) == (2 * x.n + x.d) \div (2 * x.d)

\* num_features, for a features_size that passed the checks.
NumFeaturesOf(features_size) ==
    IF features_size.type = "float"
    THEN RoundToInt(Rat(features_size.value.n * NumFeatures, features_size.value.d))
    ELSE features_size.value.n

\* The check of random_state raises: a true value that is not True, not an
\* int and not a RandomState.
RandomStateError(random_state) ==
    /\ random_state.truthy
    /\ random_state.type \notin {"bool", "int", "RandomState"}

\* Variant: the error bars are always on.
UseErrorBarsAlways(random_state) == TRUE

\* experiment.use_error_bars after the checks of random_state.
UseErrorBars(random_state) == random_state.truthy

\* What randint() can return: a seed with a true random_state, None otherwise.
Randint(random_state) ==
    IF random_state.truthy THEN {Some(seed) : seed \in Seeds} ELSE {None}

\* A partition that feature_space.Split returns.  normalized_with names the
\* partition whose statistics it was normalized with; reduced_by holds the
\* weights it was reduced with.
Partition(name, seed) ==
    [partition |-> name, seed |-> seed, normalized_with |-> "none", reduced_by |-> None]

\* space.Normalize(): with the statistics of the partition itself.
Normalize(space) == [space EXCEPT !.normalized_with = space.partition]

\* space.Normalize( reference ): with the statistics of the reference.
NormalizeWith(space, reference) ==
    [space EXCEPT !.normalized_with = reference.partition]

\* FisherFeatureWeights.NewFromFeatureSpace( space ).Threshold( num_features )
ThresholdedWeights(space, num_features) ==
    [computed_from |-> space, values |-> SubSeq(RankedWeights, 1, num_features)]

\* space.FeatureReduce( weights )
FeatureReduce(space, weights) == [space EXCEPT !.reduced_by = Some(weights)]

\* Variant: the batch numbers counted from 1.
BatchNumberFromOne(split_index) == split_index + 1

\* batch_number=split_index
BatchNumber(split_index) == split_index

\* The results a classifier can return for a split.
ShuffleResults ==
    {<<SampleClassification("A", "A", training_set),
       SampleClassification("B", "B", training_set)>>,
     <<SampleClassification("A", "A", training_set),
       SampleClassification("B", "A", training_set)>>}

\* FeatureSpaceClassification.NewWND5( reduced_train_set, reduced_test_set,
\* weights, batch_number=split_index, error_bars=experiment.use_error_bars )
NewWND5(reduced_train_set, reduced_test_set, weights, batch_number, error_bars, results) ==
    Batch("FeatureSpaceClassification", results, weights.values, <<>>, <<>>)
    @@ [batch_number |-> batch_number,
        error_bars |-> error_bars,
        training_set |-> reduced_train_set,
        test_set |-> reduced_test_set]

\* The statement after the body of the loop, or after the checks.
AfterIteration(split_index, n_iter, quiet) ==
    IF split_index < n_iter THEN "Split"
    ELSE IF ~quiet THEN "Print"
    ELSE "returned"

At(pc) == shuffle # None /\ shuffle.val.pc = pc

\* A step of the loop that changes locals only.
LocalStep(frame) ==
    /\ shuffle' = Some(frame)
    /\ UNCHANGED <<batchVars, baseVars, clsVars, call, reportVars, regression, grid>>

\* The call, up to the loop: the experiment is created, the arguments are
\* checked, randint and use_error_bars are set.
NewShuffleSplit ==
    /\ shuffle = None
    /\ \E n_iter \in 0..MaxIterations, features_size \in FeaturesSizes,
          random_state \in RandomStates, quiet \in BOOLEAN :
          LET raised == IF FeaturesSizeError(features_size) \/ RandomStateError(random_state)
                        THEN "ValueError" ELSE "none"
          IN  /\ shuffle' =
                    Some([pc |-> IF raised = "none"
                                 THEN AfterIteration(0, n_iter, quiet) ELSE "raised",
                          n_iter |-> n_iter,
                          features_size |-> features_size,
                          random_state |-> random_state,
                          quiet |-> quiet,
                          num_features |-> IF FeaturesSizeError(features_size) THEN None
                                           ELSE Some(NumFeaturesOf(features_size)),
                          split_index |-> 0,
                          seeds |-> <<>>,
                          train_set |-> None,
                          test_set |-> None,
                          weights |-> None,
                          reduced_train_set |-> None,
                          reduced_test_set |-> None,
                          batch_result |-> None])
              /\ use_error_bars' =
                    IF raised = "none" THEN Some(UseErrorBars(random_state)) ELSE use_error_bars
              /\ call' = Call("NewShuffleSplit", raised)
    /\ UNCHANGED <<batchVars, baseVars, clsVars, printed, individual_stats, sorted_images,
                   regression, grid>>

\* train_set, test_set = feature_space.Split( ..., random_state=randint() )
ShuffleSplit ==
    /\ At("Split")
    /\ \E seed \in Randint(shuffle.val.random_state) :
          LocalStep([shuffle.val EXCEPT
                        !.pc = "NormalizeTrain",
                        !.seeds = Append(@, seed),
                        !.train_set = Some(Partition("train", seed)),
                        !.test_set = Some(Partition("test", seed))])

\* train_set.Normalize()
NormalizeTrain ==
    /\ At("NormalizeTrain")
    /\ LocalStep([shuffle.val EXCEPT
                      !.pc = "Weights",
                      !.train_set = Some(Normalize(@.val))])

\* weights = FisherFeatureWeights.NewFromFeatureSpace( train_set ).Threshold( num_features )
ComputeWeights ==
    /\ At("Weights")
    /\ LocalStep([shuffle.val EXCEPT
                      !.pc = "ReduceTrain",
                      !.weights = Some(ThresholdedWeights(shuffle.val.train_set.val,
                                                          shuffle.val.num_features.val))])

\* reduced_train_set = train_set.FeatureReduce( weights )
ReduceTrain ==
    /\ At("ReduceTrain")
    /\ LocalStep([shuffle.val EXCEPT
                      !.pc = "ReduceTest",
                      !.reduced_train_set =
                          Some(FeatureReduce(shuffle.val.train_set.val, shuffle.val.weights.val))])

\* reduced_test_set = test_set.FeatureReduce( weights )
ReduceTest ==
    /\ At("ReduceTest")
    /\ LocalStep([shuffle.val EXCEPT
                      !.pc = "NormalizeTest",
                      !.reduced_test_set =
                          Some(FeatureReduce(shuffle.val.test_set.val, shuffle.val.weights.val))])

\* Variant: reduced_test_set.Normalize(), without the reference.
NormalizeTestWithOwn ==
    /\ At("NormalizeTest")
    /\ LocalStep([shuffle.val EXCEPT
                      !.pc = "Classify",
                      !.reduced_test_set = Some(Normalize(@.val))])

\* reduced_test_set.Normalize( reduced_train_set )
NormalizeTest ==
    /\ At("NormalizeTest")
    /\ LocalStep([shuffle.val EXCEPT
                      !.pc = "Classify",
                      !.reduced_test_set =
                          Some(NormalizeWith(@.val, shuffle.val.reduced_train_set.val))])

\* batch_result = FeatureSpaceClassification.NewWND5( ... )
Classify ==
    /\ At("Classify")
    /\ \E results \in ShuffleResults :
          LocalStep([shuffle.val EXCEPT
                        !.pc = "BatchStats",
                        !.batch_result =
                            Some(NewWND5(shuffle.val.reduced_train_set.val,
                                         shuffle.val.reduced_test_set.val,
                                         shuffle.val.weights.val,
                                         BatchNumber(shuffle.val.split_index),
                                         use_error_bars.val,
                                         results))])

\* batch_result.GenerateStats()
BatchStats ==
    /\ At("BatchStats")
    /\ LocalStep([shuffle.val EXCEPT
                      !.pc = "Append",
                      !.batch_result = Some(BatchGenerateStats(@.val, training_set))])

\* experiment.individual_results.append( batch_result ), and the loop's step.
AppendResult ==
    /\ At("Append")
    /\ individual_results' = Append(individual_results, shuffle.val.batch_result.val)
    /\ shuffle' = Some([shuffle.val EXCEPT
                            !.split_index = @ + 1,
                            !.pc = AfterIteration(shuffle.val.split_index + 1,
                                                  shuffle.val.n_iter, shuffle.val.quiet)])
    /\ UNCHANGED <<test_set, training_set, baseVars, clsVars, call, reportVars, regression, grid>>

\* experiment.Print() at the end of a call that is not quiet, and the return.
\* The accuracy is not computed yet, so Print calls GenerateStats.
PrintAndReturn ==
    /\ At("Print")
    /\ StatsCall("NewShuffleSplit")
    /\ printed' =
          IF call'.raised = "none"
          THEN Some(AccuracyLine(use_error_bars.val, num_classifications',
                                 FloatOfAccuracy(classification_accuracy'.val)))
          ELSE printed
    /\ shuffle' = Some([shuffle.val EXCEPT
                            !.pc = IF call'.raised = "none" THEN "returned" ELSE "raised"])
    /\ UNCHANGED <<use_error_bars, individual_stats, sorted_images, regression, grid>>

NextShuffle ==
    \/ NewShuffleSplit
    \/ ShuffleSplit
    \/ NormalizeTrain
    \/ ComputeWeights
    \/ ReduceTrain
    \/ ReduceTest
    \/ NormalizeTest
    \/ Classify
    \/ BatchStats
    \/ AppendResult
    \/ PrintAndReturn
SpecShuffle == InitBase /\ [][NextShuffle]_vars

(***************************************************************************)
(* Properties of NewShuffleSplit.                                          *)
(***************************************************************************)
\* C17: NewShuffleSplit with valid arguments and n_iter = N returns an
\* experiment whose individual_results holds exactly N batch results, appended
\* in the order of the iterations, the i-th of them (from 0) with
\* batch_number i.  During the call one batch is held per finished iteration.
C17_ReturnsNBatchesInOrder ==
    shuffle # None =>
        /\ Len(individual_results) = shuffle.val.split_index
        /\ \A i \in 1..Len(individual_results) :
              /\ individual_results[i].batch_number = i - 1
              /\ individual_results[i].training_set.seed = shuffle.val.seeds[i]
        /\ shuffle.val.pc = "returned" => Len(individual_results) = shuffle.val.n_iter

\* A call with n_iter = 2 has returned: two batches, numbered 0 and 1.
C17_Witness ==
    /\ At("returned")
    /\ shuffle.val.n_iter = 2
    /\ Len(individual_results) = 2
    /\ individual_results[1].batch_number = 0
    /\ individual_results[2].batch_number = 1

\* A features_size the checks are to reject: a float outside [0, 1], an int
\* outside [0, num_features], a value of another type.
InvalidFeaturesSize(features_size) ==
    \/ /\ features_size.type = "float"
       /\ \/ RatLt(features_size.value, RatOfInt(0))
          \/ RatLt(RatOfInt(1), features_size.value)
    \/ /\ features_size.type = "int"
       /\ \/ features_size.value.n < 0
          \/ features_size.value.n > NumFeatures
    \/ features_size.type \notin {"float", "int"}

\* A random_state of a type that is not supported: not True or False, not
\* None, not an int, not a RandomState.
UnsupportedRandomState(random_state) ==
    random_state.type \notin {"bool", "NoneType", "int", "RandomState"}

\* The call raised ValueError before the first Split: nothing was split and no
\* batch was appended.
RaisedBeforeSplit ==
    /\ shuffle.val.pc = "raised"
    /\ call = Call("NewShuffleSplit", "ValueError")
    /\ shuffle.val.seeds = <<>>
    /\ shuffle.val.train_set = None
    /\ individual_results = <<>>

\* C18: a float features_size outside [0, 1], an int features_size outside
\* [0, num_features], a features_size of another type, or a random_state of an
\* unsupported type makes NewShuffleSplit raise ValueError before any call of
\* Split: nothing is split, normalized, selected or classified and no batch
\* is appended.
C18_InvalidArgumentsRaiseBeforeSplit ==
    (shuffle # None /\ (\/ InvalidFeaturesSize(shuffle.val.features_size)
                        \/ UnsupportedRandomState(shuffle.val.random_state)))
        => RaisedBeforeSplit

\* The part of C18 about features_size.
InvalidFeaturesSizeRaisesBeforeSplit ==
    (shuffle # None /\ InvalidFeaturesSize(shuffle.val.features_size)) => RaisedBeforeSplit

\* A top-level seed: an int, a RandomState, or True.
TopLevelSeed(random_state) ==
    \/ random_state.type \in {"int", "RandomState"}
    \/ random_state.type = "bool" /\ random_state.truthy

\* C19: in a call of NewShuffleSplit with a top-level seed (an int, a
\* RandomState, or True) the seeds passed to Split in different iterations
\* are pairwise distinct.
C19_SeedsPairwiseDistinct ==
    (shuffle # None /\ TopLevelSeed(shuffle.val.random_state)) =>
        \A i, j \in 1..Len(shuffle.val.seeds) :
            i < j => shuffle.val.seeds[i] # shuffle.val.seeds[j]

\* The same with a top-level seed that is true, so that randint draws.
DrawnSeedsPairwiseDistinct ==
    (shuffle # None /\ shuffle.val.random_state.truthy) =>
        \A i, j \in 1..Len(shuffle.val.seeds) :
            i < j => shuffle.val.seeds[i] # shuffle.val.seeds[j]

\* The partitions of a split as the classifier is to get them: the training
\* partition normalized with its own statistics and then reduced with
\* weights computed from that normalized, unreduced training partition; the
\* test partition of the same split reduced with the same weights and then
\* normalized with the statistics of the training partition.
ProperlyPrepared(train, test, weights, seed) ==
    LET normalized_train == Normalize(Partition("train", seed)) IN
    /\ weights.computed_from = normalized_train
    /\ train = [normalized_train EXCEPT !.reduced_by = Some(weights)]
    /\ test = [Partition("test", seed) EXCEPT
                  !.reduced_by = Some(weights), !.normalized_with = "train"]

\* C20: in every iteration of NewShuffleSplit the steps are taken in the
\* order split, normalize the training partition, compute and threshold the
\* weights from the normalized training partition only, reduce both
\* partitions, normalize the reduced test partition with the reduced training
\* partition as reference, classify, append; the test partition is never
\* normalized with its own statistics and never contributes to the weights.
C20_StepsInOrder ==
    shuffle # None =>
        LET f == shuffle.val
            seed == f.seeds[Len(f.seeds)]
            split == {"NormalizeTrain", "Weights", "ReduceTrain", "ReduceTest",
                      "NormalizeTest", "Classify", "BatchStats", "Append"}
        IN  /\ f.pc \in split =>
                  /\ f.test_set.val = Partition("test", seed)
                  /\ f.train_set.val =
                        IF f.pc = "NormalizeTrain" THEN Partition("train", seed)
                        ELSE Normalize(Partition("train", seed))
            /\ f.pc \in split \ {"NormalizeTrain", "Weights"} =>
                  f.weights.val = ThresholdedWeights(Normalize(Partition("train", seed)),
                                                     f.num_features.val)
            /\ f.pc \in {"ReduceTest", "NormalizeTest"} =>
                  f.reduced_train_set.val =
                      [f.train_set.val EXCEPT !.reduced_by = Some(f.weights.val)]
            /\ f.pc = "NormalizeTest" =>
                  f.reduced_test_set.val =
                      [f.test_set.val EXCEPT !.reduced_by = Some(f.weights.val)]
            /\ f.pc \in {"Classify", "BatchStats", "Append"} =>
                  ProperlyPrepared(f.reduced_train_set.val, f.reduced_test_set.val,
                                   f.weights.val, seed)
            /\ f.pc \in {"BatchStats", "Append"} =>
                  /\ f.batch_result.val.training_set = f.reduced_train_set.val
                  /\ f.batch_result.val.test_set = f.reduced_test_set.val
                  /\ f.batch_result.val.feature_weights = f.weights.val.values
                  /\ Len(individual_results) = f.split_index
            /\ \A i \in 1..Len(individual_results) :
                  LET b == individual_results[i] IN
                  /\ b.test_set.normalized_with # "test"
                  /\ b.training_set.reduced_by # None
                  /\ ProperlyPrepared(b.training_set, b.test_set,
                                      b.training_set.reduced_by.val, f.seeds[i])
                  /\ b.feature_weights = b.training_set.reduced_by.val.values

\* A call with a true random_state has appended the batches of two splits
\* of different seeds, each classified on its properly prepared partitions.
C20_Witness ==
    /\ shuffle # None
    /\ Len(individual_results) = 2
    /\ shuffle.val.seeds = <<Some(1), Some(2)>>
    /\ individual_results[2].test_set.normalized_with = "train"
    /\ individual_results[2].test_set.seed = Some(2)
    /\ Len(individual_results[2].feature_weights) = 1

\* C21: NewShuffleSplit sets use_error_bars to True exactly when every
\* iteration passes Split a seed of its own, drawn from the random source, and
\* to False exactly when every iteration passes Split no seed and so reuses
\* the same split; every batch is created with the experiment's flag as its
\* error_bars; and the final Print reports no confidence interval when
\* use_error_bars is False.
C21_ErrorBarsIffRandomSplits ==
    (shuffle # None /\ call.raised # "ValueError") =>
        LET f == shuffle.val IN
        /\ use_error_bars \in {Some(TRUE), Some(FALSE)}
        /\ use_error_bars = Some(TRUE) =>
              \A i \in 1..Len(f.seeds) : f.seeds[i] # None /\ f.seeds[i].val \in Seeds
        /\ use_error_bars = Some(FALSE) =>
              \A i \in 1..Len(f.seeds) : f.seeds[i] = None
        /\ \A i \in 1..Len(individual_results) :
              individual_results[i].error_bars = use_error_bars.val
        /\ f.batch_result # None => f.batch_result.val.error_bars = use_error_bars.val
        /\ (printed # None /\ use_error_bars = Some(FALSE)) => printed.val = "no interval"

\* A call without randomness has returned after two iterations and its Print:
\* no seed was passed, the batches were created without error bars and no
\* interval was printed.
C21_Witness ==
    /\ At("returned")
    /\ ~shuffle.val.quiet
    /\ use_error_bars = Some(FALSE)
    /\ shuffle.val.seeds = <<None, None>>
    /\ Len(individual_results) = 2
    /\ ~individual_results[2].error_bars
    /\ printed = Some("no interval")

\* A call with randomness has returned after two iterations and its Print.
RandomCallPrinted ==
    /\ At("returned")
    /\ use_error_bars = Some(TRUE)
    /\ Len(individual_results) = 2
    /\ individual_results[2].error_bars
    /\ printed # None /\ printed.val # "no interval"

(***************************************************************************)
(* Properties of the lazy per-batch statistics.                            *)
(***************************************************************************)
\* The batch's own summary is computed.
SummaryComputed(b) == b.std_err # None \/ b.classification_accuracy # None

\* C22: once a batch's summary (classification_accuracy or std_err) is
\* computed, no later step calls the batch's own GenerateStats again or
\* changes the batch: a batch's GenerateStats is called only while its
\* summary is not computed.
C22_SummaryComputedOnce ==
    [][\A i \in 1..Len(individual_results) :
          SummaryComputed(individual_results[i]) =>
              /\ Len(individual_results') >= i
              /\ individual_results'[i] = individual_results[i]]_vars

\* GenerateStats has run twice over a batch, and once over a batch appended
\* in between: each batch's own GenerateStats was called once.
C22_Witness ==
    /\ Completed
    /\ Len(individual_results) = 2
    /\ num_classifications = 2
    /\ confusion_matrix # None
    /\ \A i \in 1..2 :
          /\ SummaryComputed(individual_results[i])
          /\ individual_results[i].generate_stats_calls = 1

(***************************************************************************)
(* GenerateStats over batches whose own GenerateStats can fail.            *)
(***************************************************************************)
\* The batch's own GenerateStats raises: a classification batch without
\* results divides by its number of classifications, which is 0.
BatchStatsFail(b) ==
    b.class = "FeatureSpaceClassification" /\ b.individual_results = <<>>

\* The first batch, in order, on which the loop of the base GenerateStats
\* calls a GenerateStats that raises; 0 when there is none.
FirstFailing(batches) ==
    LET failing == {i \in 1..Len(batches) :
                       /\ batches[i].std_err = None
                       /\ batches[i].classification_accuracy = None
                       /\ BatchStatsFail(batches[i])}
    IN  IF failing = {} THEN 0 ELSE CHOOSE i \in failing : \A j \in failing : i <= j

\* The base loop up to the batch k, whose GenerateStats raises: the batches
\* before k have their own statistics and are counted, the batch k is left
\* without a summary and the exception leaves the call.
AbortedBase(k) ==
    LET before == SubSeq(BatchesWithStats(individual_results, training_set), 1, k - 1) IN
    /\ num_classifications + SumLen(before) <= MaxClassifications
    /\ individual_results' =
          [i \in 1..Len(individual_results) |->
              IF i < k THEN before[i] ELSE individual_results[i]]
    /\ num_classifications' = num_classifications + SumLen(before)
    /\ call' = Call("GenerateStats", "ZeroDivisionError")
    /\ UNCHANGED <<test_set, training_set, ground_truth_values, predicted_values,
                   feature_weight_statistics, feature_weight_lists_keys,
                   reportVars, shuffle, regression, grid>>

\* Variant: the matrices and counters initialized before the call of the
\* base GenerateStats.
AbortedAfterInitialization(k) ==
    /\ AbortedBase(k)
    /\ confusion_matrix' = Some(EmptyStats.confusion_matrix)
    /\ average_class_probability_matrix' = Some(EmptyStats.average_class_probability_matrix)
    /\ num_correct_classifications' = Some(0)
    /\ num_classifications_per_class' = Some(EmptyDict)
    /\ num_correct_classifications_per_class' = Some(EmptyDict)
    /\ UNCHANGED <<classification_accuracy, similarity_matrix>>

\* GenerateStats of a classification experiment when the base GenerateStats,
\* called first, raises at batch k: nothing after the call of super is run.
Aborted(k) ==
    /\ AbortedBase(k)
    /\ UNCHANGED clsVars

\* experiment.GenerateStats() on a FeatureSpaceClassificationExperiment whose
\* batches may fail.
GenerateStatsOrAbort ==
    IF FirstFailing(individual_results) # 0
    THEN Aborted(FirstFailing(individual_results))
    ELSE GenerateStats

\* exp.individual_results.append( split ): a batch without results.
AppendEmptyBatch ==
    /\ Len(individual_results) < MaxBatches
    /\ individual_results' =
          Append(individual_results,
                 Batch("FeatureSpaceClassification", <<>>, <<>>, <<>>, <<>>))
    /\ call' = Call("append", "none")
    /\ UNCHANGED <<test_set, training_set, baseVars, clsVars, reportVars, shuffle, regression, grid>>

NextFailing == AppendBatch \/ AppendEmptyBatch \/ GenerateStatsOrAbort
SpecFailing == InitBase /\ [][NextFailing]_vars

\* C23: when the GenerateStats of a batch fails during the experiment's
\* GenerateStats, the call raises the error, the aggregate accuracy and
\* matrices stay as they were before the call, and the batches whose summary
\* was computed before the call stay exactly as they were.
C23_FailureAbortsAggregate ==
    [][(FirstFailing(individual_results) # 0
        /\ Len(individual_results') = Len(individual_results)) =>
          /\ call' = Call("GenerateStats", "ZeroDivisionError")
          /\ UNCHANGED clsVars
          /\ \A i \in 1..Len(individual_results) :
                SummaryComputed(individual_results[i]) =>
                    individual_results'[i] = individual_results[i]]_vars

\* A GenerateStats has raised at a batch without results, after an earlier
\* GenerateStats had published the aggregate of the batch before it.
C23_Witness ==
    /\ call = Call("GenerateStats", "ZeroDivisionError")
    /\ Len(individual_results) >= 2
    /\ SummaryComputed(individual_results[1])
    /\ BatchStatsFail(individual_results[2])
    /\ classification_accuracy # None
    /\ confusion_matrix # None

(***************************************************************************)
(* FeatureSpaceRegressionExperiment.GenerateStats.  The correlation        *)
(* statistics are kept by their kind: a computed value, nan, or the        *)
(* fallback.  numpy raises FloatingPointError on an invalid operation      *)
(* (0.0 / 0.0) when its error mode is "raise" and gives nan when it is     *)
(* "warn".                                                                 *)
(***************************************************************************)
MaxRegressionBatches == 2          \* batches appended to a regression experiment
MaxRegressionClassifications == 9  \* cap of num_classifications, which every
                                   \* GenerateStats adds to

\* The value lists of the batches: both lists, a constant list of ground
\* truths, a constant list of predictions, a batch without predictions,
\* batches without ground truth.
RegressionLists ==
    {[gt |-> <<1, 2, 3>>, pred |-> <<3, 4, 6>>],
     [gt |-> <<2, 2, 2>>, pred |-> <<3, 4, 6>>],
     [gt |-> <<1, 2, 3>>, pred |-> <<4, 4, 4>>],
     [gt |-> <<1, 2, 3>>, pred |-> <<>>],
     [gt |-> <<>>, pred |-> <<3, 4, 6>>],
     [gt |-> <<>>, pred |-> <<5>>]}

\* All the values of the list are equal: its variance is zero.
Constant(list) == \A i, j \in DOMAIN list : list[i] = list[j]

\* gt - pv on numpy arrays: the exception raised, "none" when there is none.
\* np.array( None ) has no subtraction; arrays of different lengths are
\* subtracted only when one of them has one element, which is then used
\* against every element of the other.
DiffsRaised(gt, pv) ==
    IF gt = None \/ pv = None THEN "TypeError"
    ELSE IF Len(gt.val) = Len(pv.val) \/ Len(gt.val) = 1 \/ Len(pv.val) = 1 THEN "none"
    ELSE "ValueError"

\* The list as the subtraction uses it against a list of n elements.
Broadcast(list, n) == IF Len(list) = n THEN list ELSE [i \in 1..n |-> list[1]]

\* np.sum( np.square( gt - pv ) )
ErrSum(gt, pv) ==
    LET n == IF Len(gt) >= Len(pv) THEN Len(gt) ELSE Len(pv)
    IN  SumSquaredResiduals(Broadcast(gt, n), Broadcast(pv, n))

\* What scipy.stats.linregress( gt, pv ) can do: raise ValueError on lists of
\* different lengths; on ground truths of zero variance divide 0.0 by 0.0 for
\* the slope, or refuse them with a ValueError, as the build has it; compute
\* the coefficient otherwise.
LinregressOutcomes(gt, pv, np_errors) ==
    IF Len(gt) # Len(pv) THEN {"ValueError"}
    ELSE IF Constant(gt)
    THEN {IF np_errors = "raise" THEN "FloatingPointError" ELSE "nan", "ValueError"}
    ELSE {"r"}

\* What scipy.stats.spearmanr( gt, pv ) can do: on a list of zero variance
\* divide 0.0 by 0.0 for the correlation of the ranks, or return nan after a
\* warning, as the build has it; compute the coefficient otherwise.
SpearmanrOutcomes(gt, pv, np_errors) ==
    IF Constant(gt) \/ Constant(pv)
    THEN {IF np_errors = "raise" THEN "FloatingPointError" ELSE "nan", "nan"}
    ELSE {"rho"}

\* except FloatingPointError: self.spearman_coeff, self.spearman_p_value = ( 0, 1 )
SpearmanFallback == [coeff |-> "0", p_value |-> "1"]

\* self.spearman_coeff, self.spearman_p_value after the try statement.
SpearmanOf(outcome) ==
    IF outcome = "FloatingPointError" THEN SpearmanFallback
    ELSE IF outcome = "nan" THEN [coeff |-> "nan", p_value |-> "nan"]
    ELSE [coeff |-> outcome, p_value |-> "p"]

\* experiment.GenerateStats() on a FeatureSpaceRegressionExperiment.  std_err
\* is kept as its square.
RegressionGenerateStats ==
    \E keys \in Enumerations(DOMAIN FeatureWeightLists(EmptyDict, individual_results)) :
        LET batches == BatchesWithStats(individual_results, training_set)
            base == BaseStats(batches, keys)
            gt == base.ground_truth_values
            pv == base.predicted_values
            diffs == DiffsRaised(gt, pv)
        IN  /\ base.num_classifications <= MaxRegressionClassifications
            /\ individual_results' = batches
            /\ num_classifications' = base.num_classifications
            /\ ground_truth_values' = gt
            /\ predicted_values' = pv
            /\ feature_weight_statistics' = base.feature_weight_statistics
            /\ feature_weight_lists_keys' = keys
            /\ IF diffs # "none"
               THEN /\ regression' = regression
                    /\ call' = Call("RegressionGenerateStats", diffs)
               ELSE \E lin \in LinregressOutcomes(gt.val, pv.val, regression.np_errors),
                       sp \in SpearmanrOutcomes(gt.val, pv.val, regression.np_errors) :
                       LET std_err == Some(Rat(ErrSum(gt.val, pv.val),
                                               base.num_classifications))
                       IN  IF lin \in {"ValueError", "FloatingPointError"}
                           THEN /\ regression' = [regression EXCEPT !.std_err = std_err]
                                /\ call' = Call("RegressionGenerateStats", lin)
                           ELSE /\ regression' =
                                     [std_err |-> std_err,
                                      pearson_coeff |-> Some(lin),
                                      spearman_coeff |-> Some(SpearmanOf(sp).coeff),
                                      spearman_p_value |-> Some(SpearmanOf(sp).p_value),
                                      np_errors |-> "raise"]
                                /\ call' = Call("RegressionGenerateStats", "none")
            /\ UNCHANGED <<test_set, training_set, clsVars, reportVars, shuffle, grid>>

\* experiment.individual_results.append( batch_result ), a regression batch.
AppendRegressionBatch ==
    /\ Len(individual_results) < MaxRegressionBatches
    /\ \E lists \in RegressionLists :
          individual_results' =
              Append(individual_results, RegressionBatch(<<>>, lists.gt, lists.pred))
    /\ call' = Call("append", "none")
    /\ UNCHANGED <<test_set, training_set, baseVars, clsVars, reportVars, shuffle,
                   regression, grid>>

\* FeatureSpaceRegressionExperiment( training_set=..., test_set=... ), numpy's
\* error mode being what the program has set before.
InitRegression ==
    /\ test_set = <<"A", "B">>
    /\ training_set = <<"A", "B">>
    /\ ExperimentFields
    /\ \E np_errors \in {"warn", "raise"} : regression = NoRegressionStats(np_errors)

NextRegression == AppendRegressionBatch \/ RegressionGenerateStats
SpecRegression == InitRegression /\ [][NextRegression]_vars

\* The last call was the regression GenerateStats, on lists of equal length of
\* which one has zero variance.
DegenerateInput ==
    /\ call.op = "RegressionGenerateStats"
    /\ ground_truth_values # None /\ predicted_values # None
    /\ Len(ground_truth_values.val) = Len(predicted_values.val)
    /\ Constant(ground_truth_values.val) \/ Constant(predicted_values.val)

\* C24: on input of zero variance the regression GenerateStats returns
\* normally, with spearman_coeff and spearman_p_value set to (0, 1): no
\* numeric fault reaches the caller.
C24_DegeneracyRecoveredLocally ==
    DegenerateInput =>
        /\ call.raised = "none"
        /\ regression.spearman_coeff = Some("0")
        /\ regression.spearman_p_value = Some("1")

\* The fallback is taken: with numpy raising, predictions of zero variance
\* and ground truths that vary, the call returns with (0, 1).
FallbackTaken ==
    /\ DegenerateInput
    /\ call.raised = "none"
    /\ regression.spearman_coeff = Some("0")
    /\ regression.spearman_p_value = Some("1")

\* Whatever the build, ground truths of zero variance under numpy's error
\* mode "raise" never give a call that returns with the fallback.
ConstantGroundTruthNeverRecovered ==
    [][(regression.np_errors = "raise"
        /\ call'.op = "RegressionGenerateStats"
        /\ ground_truth_values' # None /\ predicted_values' # None
        /\ Len(ground_truth_values'.val) = Len(predicted_values'.val)
        /\ Constant(ground_truth_values'.val))
          => call'.raised # "none"]_vars

(***************************************************************************)
(* Relations between aggregates.                                           *)
(***************************************************************************)
\* Every feature weight of the batch b has a tuple in
\* feature_weight_statistics with the weight as its mean and count 1.
WeightsReproduced(b) ==
    \A k \in 1..Len(b.feature_weights) :
        \E t \in 1..Len(feature_weight_statistics.val) :
            LET stat == feature_weight_statistics.val[t] IN
            /\ stat.fname = b.feature_weights[k].name
            /\ stat.mean = RatOfInt(b.feature_weights[k].value)
            /\ stat.count = 1

\* The experiment's matrices, size and accuracy are those of the batch b, a
\* cell that one of two matrices lacks counting as 0.
SummaryReproduced(b) ==
    /\ \A g \in ClassNames : \A p \in ClassNames :
          /\ GetCount(confusion_matrix.val, g, p) = GetCount(b.confusion_matrix, g, p)
          /\ GetFloat(average_class_probability_matrix.val, g, p)
                = GetFloat(b.average_class_probability_matrix, g, p)
    /\ num_classifications = BatchLen(b)
    /\ classification_accuracy = b.classification_accuracy

\* C25: after GenerateStats on an experiment of exactly one batch, the
\* confusion matrix and the average class probability matrix equal the
\* batch's cell for cell, num_classifications is the batch's size,
\* classification_accuracy is the batch's accuracy, and every feature's mean
\* weight is its weight in the batch, with count 1.
C25_SingleBatchIdentity ==
    (Completed /\ Len(individual_results) = 1) =>
        /\ SummaryReproduced(individual_results[1])
        /\ WeightsReproduced(individual_results[1])

\* The same for the batches whose ground-truth classes are all classes of the
\* test set.
SingleBatchIdentityWithinTestSet ==
    (/\ Completed
     /\ Len(individual_results) = 1
     /\ \A i \in 1..BatchLen(individual_results[1]) :
           individual_results[1].individual_results[i].ground_truth_class_name
               \in Range(test_set)) =>
        SummaryReproduced(individual_results[1])

\* The same for the one batch of a NewShuffleSplit with n_iter = 1, which has
\* feature weights, after the GenerateStats of its Print.
SingleSplitIdentity ==
    (At("returned") /\ ~shuffle.val.quiet /\ Len(individual_results) = 1) =>
        /\ SummaryReproduced(individual_results[1])
        /\ WeightsReproduced(individual_results[1])

\* Such a call has returned, its batch having a feature weight.
SingleSplitAggregated ==
    /\ At("returned") /\ ~shuffle.val.quiet /\ Len(individual_results) = 1
    /\ Len(individual_results[1].feature_weights) >= 1

(***************************************************************************)
(* The order of the batches.  The weights of a feature are Python floats   *)
(* and np.mean adds them in the order of the batches; here the value k of  *)
(* a weight stands for the float k / 10.0.                                 *)
(***************************************************************************)
\* Bound: the batches appended in the specification of the batch order.
MaxOrderBatches == 3

\* The feature weights of the batches of this specification.
TenthWeights == {<<Weight("f1", 1)>>, <<Weight("f1", 2)>>, <<Weight("f1", 3)>>}

\* The sample classifications of the batches of this specification: both
\* classes predicted rightly, one wrongly.
RankedSamples ==
    {SampleClassification("A", "A", <<"A", "B">>),
     SampleClassification("B", "B", <<"A", "B">>),
     SampleClassification("B", "A", <<"A", "B">>)}

\* exp.individual_results.append( split ): a batch of one sample
\* classification, with feature weights.  The batches are appended before
\* the first GenerateStats, as NewShuffleSplit appends them.
AppendRankedBatch ==
    /\ Len(individual_results) < MaxOrderBatches
    /\ call.op # "GenerateStats"
    /\ \E sample \in RankedSamples : \E weights \in TenthWeights :
          individual_results' =
              Append(individual_results,
                     Batch("FeatureSpaceClassification", <<sample>>, weights,
                           <<>>, <<>>))
    /\ call' = Call("append", "none")
    /\ UNCHANGED <<test_set, training_set, baseVars, clsVars, reportVars, shuffle, regression, grid>>

NextOrder == AppendRankedBatch \/ GenerateStats
SpecOrder == InitBase /\ [][NextOrder]_vars

\* The float a weight value stands for.
FloatOfWeight(value) == FloatDiv(value, 10)

\* The sum np.mean takes: the floats added one by one in the list's order.
RECURSIVE FloatSum(_, _)
FloatSum(total, fwl) ==
    IF fwl = <<>> THEN total
    ELSE FloatSum(FloatPlus(total, FloatOfWeight(Head(fwl))), Tail(fwl))

\* np.mean( fwl_w_zeros ) on floats; the zeros padded at the end add nothing.
FloatMeanWithZeros(fwl, num_batches) ==
    FloatOverInt(FloatSum(FloatOfWeight(Head(fwl)), Tail(fwl)), num_batches)

\* individual_results in the order perm.
Permuted(perm) == [i \in 1..Len(individual_results) |-> individual_results[perm[i]]]

\* The aggregate of the batches in the order perm has the confusion matrix,
\* the number of correct classifications and the accuracy of the experiment.
CountsUnchanged(perm) ==
    LET st == AddBatches(EmptyStats, Permuted(perm), test_set, training_set) IN
    /\ st.confusion_matrix = confusion_matrix.val
    /\ st.num_correct_classifications = num_correct_classifications.val
    /\ Accuracy(st.num_correct_classifications, st.num_classifications)
          = classification_accuracy.val

\* The (feature, mean, count, min, max) tuples of the batches in the order
\* perm, the mean as the exact quotient, are those of the experiment.
ExactStatisticsUnchanged(perm) ==
    LET lists == FeatureWeightLists(EmptyDict, Permuted(perm))
        n == Len(individual_results)
    IN  {<<f, MeanWithZeros(lists[f], n), Len(lists[f]), MinSeq(lists[f]),
           MaxSeq(lists[f])>> : f \in DOMAIN lists}
        = {<<feature_weight_statistics.val[t].fname,
             feature_weight_statistics.val[t].mean,
             feature_weight_statistics.val[t].count,
             feature_weight_statistics.val[t].min,
             feature_weight_statistics.val[t].max>> :
               t \in 1..Len(feature_weight_statistics.val)}

\* The float mean of the feature f is the same double for the batches in the
\* order perm as for the batches in their own order.
FloatMeanUnchanged(perm, f) ==
    LET n == Len(individual_results) IN
    FloatEquals(FloatMeanWithZeros(FeatureWeightLists(EmptyDict, Permuted(perm))[f], n),
                FloatMeanWithZeros(FeatureWeightLists(EmptyDict, individual_results)[f], n))

\* The features with a weight in some batch, and those with a weight in at
\* most two batches.
WeightedFeatures == DOMAIN FeatureWeightLists(EmptyDict, individual_results)
FeaturesOfAtMostTwoBatches ==
    {f \in WeightedFeatures :
        Len(FeatureWeightLists(EmptyDict, individual_results)[f]) <= 2}

\* C26 as stated: after GenerateStats, the aggregate of the batches in any
\* other order has the same confusion matrix, num_correct_classifications,
\* classification_accuracy and the same (feature, mean, count, min, max)
\* statistics, the mean being the float the code computes.
C26_OrderIndependent ==
    Completed =>
        \A perm \in Permutations(1..Len(individual_results)) :
            /\ CountsUnchanged(perm)
            /\ ExactStatisticsUnchanged(perm)
            /\ \A f \in WeightedFeatures : FloatMeanUnchanged(perm, f)

\* C26, amended: after GenerateStats, the aggregate of the batches in any
\* other order has the same confusion matrix, num_correct_classifications and
\* classification_accuracy, the same feature count, min and max, and the same
\* mean up to the rounding of the float sum: the exact quotients are equal,
\* and the floats are equal for a feature with weights in at most two batches.
C26_OrderIndependentUpToRounding ==
    Completed =>
        \A perm \in Permutations(1..Len(individual_results)) :
            /\ CountsUnchanged(perm)
            /\ ExactStatisticsUnchanged(perm)
            /\ \A f \in FeaturesOfAtMostTwoBatches : FloatMeanUnchanged(perm, f)

\* GenerateStats has aggregated three batches that differ in their sample and
\* in their weight, with a feature whose float mean depends on their order.
C26_Witness ==
    /\ Completed
    /\ Len(individual_results) = 3
    /\ GetCount(confusion_matrix.val, "B", "A") = 1
    /\ num_correct_classifications.val = 2
    /\ \E perm \in Permutations(1..3) : \E f \in WeightedFeatures :
          ~FloatMeanUnchanged(perm, f)

(***************************************************************************)
(* GenerateStats called again on the same batches.                         *)
(***************************************************************************)
\* The step is a second GenerateStats in a row: the call op returned, and
\* returns again with the feature weight lists enumerated in the same order.
CalledAgain(op) ==
    /\ call = Call(op, "none")
    /\ call' = Call(op, "none")
    /\ feature_weight_lists_keys' = feature_weight_lists_keys

\* The aggregates the step leaves as they were.
SameAggregates ==
    /\ num_classifications' = num_classifications
    /\ ground_truth_values' = ground_truth_values
    /\ predicted_values' = predicted_values
    /\ feature_weight_statistics' = feature_weight_statistics
    /\ classification_accuracy' = classification_accuracy
    /\ regression'.std_err = regression.std_err

\* C27: a GenerateStats that follows a GenerateStats on the same batch list
\* leaves num_classifications, ground_truth_values, predicted_values,
\* feature_weight_statistics, the accuracy and the regression std_err as the
\* first call computed them, on base, classification and regression
\* experiments alike.
C27_GenerateStatsIdempotent ==
    [][(\/ CalledAgain("GenerateStats")
        \/ CalledAgain("BaseGenerateStats")
        \/ CalledAgain("RegressionGenerateStats")) => SameAggregates]_vars

\* The same for the classification experiment alone, whose GenerateStats
\* sets num_classifications to 0 before it counts.
ClassificationGenerateStatsIdempotent ==
    [][CalledAgain("GenerateStats") => SameAggregates /\ UNCHANGED clsVars]_vars

(***************************************************************************)
(* The value lists of the regression aggregate.                            *)
(***************************************************************************)
\* Nothing has been aggregated yet.
FreshExperiment ==
    /\ num_classifications = 0
    /\ ground_truth_values = None
    /\ predicted_values = None
    /\ regression.std_err = None

\* The sample predictions of the batches, in the order of the aggregation.
RECURSIVE SamplesInOrder(_)
SamplesInOrder(batches) ==
    IF batches = <<>> THEN <<>>
    ELSE ClassificationResults(Head(batches)) \o SamplesInOrder(Tail(batches))

\* ground_truth_values and predicted_values have one element per sample
\* prediction, element i of each being the value of sample i, and
\* num_classifications is their length.
AlignedValues ==
    LET samples == SamplesInOrder(individual_results) IN
    /\ ground_truth_values # None
    /\ predicted_values # None
    /\ Len(ground_truth_values.val) = Len(predicted_values.val)
    /\ num_classifications = Len(ground_truth_values.val)
    /\ Len(samples) = num_classifications
    /\ \A i \in 1..Len(samples) :
          /\ samples[i].ground_truth_value = Some(ground_truth_values.val[i])
          /\ samples[i].predicted_value = Some(predicted_values.val[i])

\* Every sample of every batch has a ground truth and a predicted value.
CompleteBatches ==
    \A i \in 1..Len(individual_results) :
        /\ Len(individual_results[i].ground_truth_values) = BatchLen(individual_results[i])
        /\ Len(individual_results[i].predicted_values) = BatchLen(individual_results[i])

\* C28: when the first GenerateStats of a fresh regression experiment returns,
\* ground_truth_values and predicted_values have the same length and are
\* aligned pair for pair, and num_classifications, the divisor of std_err, is
\* that length, whatever batches the experiment has.
C28_ValuesAligned ==
    [][(FreshExperiment /\ call' = Call("RegressionGenerateStats", "none"))
          => AlignedValues']_vars

\* The same when no batch lacks a ground truth or a predicted value.
CompleteValuesAligned ==
    [][(/\ FreshExperiment
        /\ CompleteBatches
        /\ call' = Call("RegressionGenerateStats", "none")) => AlignedValues']_vars

\* The first GenerateStats has returned on two complete batches.
CompleteValuesAggregated ==
    /\ call = Call("RegressionGenerateStats", "none")
    /\ CompleteBatches
    /\ Len(individual_results) = 2
    /\ num_classifications = 6

(***************************************************************************)
(* PerSampleStatistics after GenerateStats.                                *)
(***************************************************************************)
\* Bound: the batches appended in the specification of the two reports.
MaxReportBatches == 2

\* The results of the splits of this specification: a sample of one split,
\* and samples that two splits share.
ReportResults ==
    {<<NamedSampleRegression("a", 3)>>,
     <<NamedSampleRegression("a", 4), NamedSampleRegression("b", 3)>>,
     <<NamedSampleRegression("b", 4)>>}

\* experiment.individual_results.append( batch_result ): a regression batch
\* whose own GenerateStats has taken the value lists from its results.
AppendReportBatch ==
    /\ Len(individual_results) < MaxReportBatches
    /\ \E results \in ReportResults :
          individual_results' =
              Append(individual_results,
                     BatchGenerateStats(
                         Batch("FeatureSpaceRegression", results, <<>>,
                               [i \in 1..Len(results) |-> results[i].ground_truth_value],
                               PredictedValuesOfResults(results)),
                         <<>>))
    /\ call' = Call("append", "none")
    /\ UNCHANGED <<test_set, training_set, baseVars, clsVars, reportVars, shuffle,
                   regression, grid>>

NextReport == AppendReportBatch \/ RegressionGenerateStats \/ RegressionPerSampleStatistics
SpecReport == InitRegression /\ [][NextReport]_vars

\* The step is a PerSampleStatistics that returns.
PerSampleStatisticsReturns ==
    \/ call' = Call("PerSampleStatistics", "none")
    \/ call' = Call("RegressionPerSampleStatistics", "none")

\* predicted_values holds after the step the numbers it held before it; the
\* regression report writes the means it computes, which are floats.
SamePredictedValues ==
    IF call'.op = "RegressionPerSampleStatistics"
    THEN /\ predicted_values # None
         /\ predicted_values' =
               Some([i \in 1..Len(predicted_values.val) |->
                        RatOfInt(predicted_values.val[i])])
    ELSE predicted_values' = predicted_values

\* C29: a PerSampleStatistics that follows a GenerateStats leaves the
\* experiment's ground_truth_values, predicted_values, num_classifications,
\* confusion matrix, accuracy and std_err as GenerateStats produced them, and
\* modifies no batch result.
C29_PerSampleStatisticsKeepsAggregates ==
    [][((call = Call("GenerateStats", "none")
            \/ call = Call("RegressionGenerateStats", "none"))
        /\ PerSampleStatisticsReturns) =>
          /\ ground_truth_values' = ground_truth_values
          /\ SamePredictedValues
          /\ num_classifications' = num_classifications
          /\ confusion_matrix' = confusion_matrix
          /\ classification_accuracy' = classification_accuracy
          /\ regression'.std_err = regression.std_err
          /\ individual_results' = individual_results]_vars

\* The same without the two value lists, after any call.
PerSampleStatisticsKeepsTheRest ==
    [][PerSampleStatisticsReturns =>
          /\ num_classifications' = num_classifications
          /\ confusion_matrix' = confusion_matrix
          /\ classification_accuracy' = classification_accuracy
          /\ regression' = regression
          /\ individual_results' = individual_results]_vars

\* PerSampleStatistics has returned on an experiment whose GenerateStats had
\* aggregated three sample predictions of two samples: the value lists now
\* hold one value per sample.
ReportedAfterAggregation ==
    /\ call = Call("RegressionPerSampleStatistics", "none")
    /\ regression.std_err # None
    /\ num_classifications = 3
    /\ Len(ground_truth_values.val) = 2
    /\ Len(predicted_values.val) = 2

(***************************************************************************)
(* FeatureSpacePredictionExperiment.FeatureWeightsGridSearch.  A run is    *)
(* cls.NewShuffleSplit( **kwargs ).GenerateStats(), taken by its outcome:  *)
(* the experiment it returns, with its classification accuracy.            *)
(***************************************************************************)
\* Bound: the largest argument stop.
MaxGridStop == 4

\* The accuracies a run can have.
GridAccuracies == {Rat(0, 1), Rat(1, 2), Rat(1, 1)}

\* The argument features_size among the keyword arguments of the search.
GridFeaturesSizes == {[type |-> "int", value |-> RatOfInt(1)],
                      [type |-> "int", value |-> RatOfInt(2)]}

\* The experiment the run number run returns: it has used the number of
\* features that the keyword arguments give it.
GridExperiment(run, kwargs, accuracy) ==
    [run |-> run,
     num_features |-> NumFeaturesOf(kwargs.features_size),
     classification_accuracy |-> accuracy,
     features_accuracy_dict |-> None]

\* d[ key ] = v on a dict.
SetItem(d, key, v) == [k \in DOMAIN d \cup {key} |-> IF k = key THEN v ELSE d[k]]

\* Variant: the comparison >= for >.
AtLeast(accuracy, max_classification_accuracy) ==
    RatLe(max_classification_accuracy, accuracy)

\* exp.classification_accuracy > max_classification_accuracy
Exceeds(accuracy, max_classification_accuracy) ==
    RatLt(max_classification_accuracy, accuracy)

\* FeatureWeightsGridSearch( start, stop, step, **kwargs ): the assignments
\* before the try statement.
FeatureWeightsGridSearch ==
    /\ grid = None
    /\ \E start \in 1..2, stop \in 2..MaxGridStop, step \in 1..2,
          features_size \in GridFeaturesSizes :
          /\ start < stop
          /\ grid' = Some([start |-> start, stop |-> stop, step |-> step,
                           kwargs |-> [features_size |-> features_size],
                           n_features |-> start,
                           best_exp |-> None,
                           max_classification_accuracy |-> RatOfInt(0),
                           features_accuracy_dict |-> EmptyDict,
                           runs |-> <<>>,
                           pc |-> "loop",
                           returned |-> None])
    /\ call' = Call("FeatureWeightsGridSearch", "running")
    /\ UNCHANGED <<batchVars, baseVars, clsVars, reportVars, shuffle, regression>>

\* One iteration of the loop over xrange( start, stop, step ).
GridRun ==
    /\ grid # None
    /\ grid.val.pc = "loop"
    /\ grid.val.n_features < grid.val.stop
    /\ \E accuracy \in GridAccuracies :
          LET g == grid.val
              exp == GridExperiment(Len(g.runs) + 1, g.kwargs, accuracy)
              better == Exceeds(accuracy, g.max_classification_accuracy)
          IN  grid' = Some([g EXCEPT
                  !.features_accuracy_dict = SetItem(@, g.n_features, accuracy),
                  !.best_exp = IF better THEN Some(exp) ELSE @,
                  !.max_classification_accuracy = IF better THEN accuracy ELSE @,
                  !.runs = Append(@, exp),
                  !.n_features = @ + g.step])
    /\ UNCHANGED <<batchVars, baseVars, clsVars, call, reportVars, shuffle, regression>>

\* The finally clause and the return: the dict is attached to best_exp, which
\* is None when no run had an accuracy above 0.
GridFinally ==
    /\ grid # None
    /\ grid.val.pc = "loop"
    /\ grid.val.n_features >= grid.val.stop
    /\ LET g == grid.val IN
       IF g.best_exp = None
       THEN /\ grid' = Some([g EXCEPT !.pc = "raised"])
            /\ call' = Call("FeatureWeightsGridSearch", "AttributeError")
       ELSE /\ grid' = Some([g EXCEPT
                   !.pc = "returned",
                   !.returned = Some([g.best_exp.val EXCEPT
                       !.features_accuracy_dict = Some(g.features_accuracy_dict)])])
            /\ call' = Call("FeatureWeightsGridSearch", "none")
    /\ UNCHANGED <<batchVars, baseVars, clsVars, reportVars, shuffle, regression>>

NextGrid == FeatureWeightsGridSearch \/ GridRun \/ GridFinally
SpecGrid == InitBase /\ [][NextGrid]_vars

\* The search has ended.
GridEnded == grid # None /\ grid.val.pc \in {"returned", "raised"}

\* The values of xrange( start, stop, step ), in order.
Tried(g) == [i \in 1..((g.stop - g.start + g.step - 1) \div g.step) |->
                g.start + (i - 1) * g.step]

\* The run i is the earliest of the runs of the highest accuracy.
EarliestBest(g, i) ==
    /\ \A j \in 1..Len(g.runs) :
          RatLe(g.runs[j].classification_accuracy, g.runs[i].classification_accuracy)
    /\ \A j \in 1..(i - 1) :
          RatLt(g.runs[j].classification_accuracy, g.runs[i].classification_accuracy)

\* The search returned the earliest best run, with the dict that maps every
\* tried n_features to the accuracy of its run.
ReturnedBest(g) ==
    /\ g.pc = "returned"
    /\ g.returned # None
    /\ EarliestBest(g, g.returned.val.run)
    /\ g.returned.val.classification_accuracy
          = g.runs[g.returned.val.run].classification_accuracy
    /\ g.returned.val.features_accuracy_dict # None
    /\ LET dict == g.returned.val.features_accuracy_dict.val IN
       /\ DOMAIN dict = Range(Tried(g))
       /\ \A i \in 1..Len(g.runs) :
             dict[Tried(g)[i]] = g.runs[i].classification_accuracy

\* C30: the search has run one experiment for each n_features of
\* xrange( start, stop, step ), each with that number of features, and has
\* returned the one of the highest accuracy, the earliest on ties, with
\* features_accuracy_dict attached, whatever the accuracies were, all of them
\* 0 included.
C30_GridSearchReturnsBest ==
    GridEnded =>
        LET g == grid.val IN
        /\ Len(g.runs) = Len(Tried(g))
        /\ \A i \in 1..Len(g.runs) : g.runs[i].num_features = Tried(g)[i]
        /\ ReturnedBest(g)

\* The same without the number of features, when some run has an accuracy
\* above 0.
BestReturnedWhenSomeRunSucceeds ==
    (/\ GridEnded
     /\ \E i \in 1..Len(grid.val.runs) :
           RatLt(RatOfInt(0), grid.val.runs[i].classification_accuracy)) =>
        /\ Len(grid.val.runs) = Len(Tried(grid.val))
        /\ ReturnedBest(grid.val)

\* A search has returned the first of two runs of equal accuracy.
TieReturned ==
    /\ GridEnded
    /\ grid.val.pc = "returned"
    /\ Len(grid.val.runs) >= 2
    /\ grid.val.returned.val.run = 1
    /\ grid.val.runs[2].classification_accuracy = grid.val.runs[1].classification_accuracy

\* Every run of accuracy 0 makes the search raise AttributeError, and every
\* run uses the number of features of the keyword arguments.
GridSearchAsCoded ==
    GridEnded =>
        /\ (\A i \in 1..Len(grid.val.runs) :
               RatIsZero(grid.val.runs[i].classification_accuracy))
              => call = Call("FeatureWeightsGridSearch", "AttributeError")
        /\ \A i \in 1..Len(grid.val.runs) :
              grid.val.runs[i].num_features
                  = NumFeaturesOf(grid.val.kwargs.features_size)

====
